---- MODULE Spec2Model ----
(***************************************************************************)
(* Model of rma_prep.py: resolution of node / device facts from a bundle   *)
(* directory, deduplication of bundles per node, and node matching.        *)
(*                                                                         *)
(* Text is a sequence of one-character strings.  Python's None is the      *)
(* distinguished one-element sequence None, which no file content equals.  *)
(***************************************************************************)
EXTENDS Integers, Sequences, FiniteSets, TLC

VARIABLES
    bundles,    \* Cluster._bundles: the bundle directories, as parsed file contents
    cache,      \* per bundle: the cached_property values computed so far
    calls,      \* per bundle: how often each source extractor ran
    latest,     \* result of filter_latest_bundles_per_node (indexes) once done
    findCache,  \* cached_method cache of Cluster.find_node: identifier -> result
    shown,      \* main_impl's single-match view: matched node, siblings and RMA form rows
    groups,     \* list_nodes' box groups of the last listing
    devs,       \* per bundle: the properties read of each Device, by serial
    raised,     \* the exception that left Cluster.find_node, None when there is none
    found       \* cached_method cache of Cluster.find_device: serial -> owner bundle

vars == <<bundles, cache, calls, latest, findCache, shown, groups, devs, raised, found>>

-----------------------------------------------------------------------------
(* Text helpers *)

None == <<"None">>

\* Python truthiness of an Optional[str]
Truthy(s) == s # None /\ s # <<>>

\* x or y
Or(x, y) == IF Truthy(x) THEN x ELSE y

\* Characters of the model in code-point order (str comparison, min())
CharOrder ==
    <<" ", "$", "(", "*", ".", "/",
      "0", "1", "2", "3", "4", "5", "6", "7", "8", "9",
      "A", "B", "C", "D", "E", "F", "G", "H", "I", "J", "K", "L", "M",
      "N", "O", "P", "Q", "R", "S", "T", "U", "V", "W", "X", "Y", "Z",
      "[", "^",
      "a", "b", "c", "d", "e", "f", "g", "h", "i", "j", "k", "l", "m",
      "n", "o", "p", "q", "r", "s", "t", "u", "v", "w", "x", "y", "z">>

UpperCase == <<"A", "B", "C", "D", "E", "F", "G", "H", "I", "J", "K", "L", "M",
               "N", "O", "P", "Q", "R", "S", "T", "U", "V", "W", "X", "Y", "Z">>

LowerCase == <<"a", "b", "c", "d", "e", "f", "g", "h", "i", "j", "k", "l", "m",
               "n", "o", "p", "q", "r", "s", "t", "u", "v", "w", "x", "y", "z">>

Ord(c) == CHOOSE i \in 1..Len(CharOrder) : CharOrder[i] = c

\* str.lower() on one character
LowerChar(c) ==
    IF \E k \in 1..Len(UpperCase) : UpperCase[k] = c
    THEN LowerCase[CHOOSE k \in 1..Len(UpperCase) : UpperCase[k] = c]
    ELSE c

\* str.lower()
Lower(s) == [i \in 1..Len(s) |-> LowerChar(s[i])]

\* str.startswith
StartsWith(s, p) == Len(p) <= Len(s) /\ SubSeq(s, 1, Len(p)) = p

\* `sub in s`
Contains(s, sub) ==
    \E i \in 0..(Len(s) - Len(sub)) : SubSeq(s, i + 1, i + Len(sub)) = sub

\* str < str (lexicographic by code point)
RECURSIVE StrLess(_, _)
StrLess(a, b) ==
    IF b = <<>> THEN FALSE
    ELSE IF a = <<>> THEN TRUE
    ELSE IF Head(a) = Head(b) THEN StrLess(Tail(a), Tail(b))
    ELSE Ord(Head(a)) < Ord(Head(b))

\* min() of a non-empty list of str: the first minimal element
RECURSIVE MinStr(_)
MinStr(l) ==
    IF Len(l) = 1 THEN l[1]
    ELSE LET m == MinStr(Tail(l)) IN IF StrLess(m, l[1]) THEN m ELSE l[1]

\* str.strip() (blanks only)
RECURSIVE Strip(_)
Strip(s) ==
    IF s = <<>> THEN s
    ELSE IF Head(s) = " " THEN Strip(Tail(s))
    ELSE IF s[Len(s)] = " " THEN Strip(SubSeq(s, 1, Len(s) - 1))
    ELSE s

\* str.split('.')
RECURSIVE SplitDot(_, _)
SplitDot(s, cur) ==
    IF s = <<>> THEN <<cur>>
    ELSE IF Head(s) = "." THEN <<cur>> \o SplitDot(Tail(s), <<>>)
    ELSE SplitDot(Tail(s), Append(cur, Head(s)))

Digits == <<"0", "1", "2", "3", "4", "5", "6", "7", "8", "9">>

IsDigit(c) == \E i \in 1..10 : Digits[i] = c

DigitVal(c) == (CHOOSE i \in 1..10 : Digits[i] = c) - 1

\* int(s) succeeds (decimal digits only; signs and blanks are not in the model)
IsInt(s) == s # <<>> /\ \A i \in 1..Len(s) : IsDigit(s[i])

RECURSIVE ToInt(_)
ToInt(s) == IF s = <<>> THEN 0 ELSE 10 * ToInt(SubSeq(s, 1, Len(s) - 1)) + DigitVal(s[Len(s)])

\* get_ip_last_octet
get_ip_last_octet(ip) ==
    IF ~Truthy(ip) THEN 0
    ELSE LET parts == SplitDot(ip, <<>>)
             last == parts[Len(parts)]
         IN IF IsInt(last) THEN ToInt(last) ELSE 0

-----------------------------------------------------------------------------
(* re.compile(identifier, re.IGNORECASE) and pattern.search, for patterns     *)
(* written with literals, '.', '*', '^', '$', '(' and '['.  The model has no  *)
(* ')' and no ']', so every '(' or '[' is unterminated.                       *)

\* Parsed pattern: a sequence of items [kind, ch, star]
RECURSIVE ParseItems(_)
ParseItems(p) ==
    IF p = <<>> THEN <<>>
    ELSE LET c == Head(p)
             kind == CASE c = "." -> "any" [] c = "^" -> "bol" [] c = "$" -> "eol"
                       [] OTHER -> "lit"
             starred == Len(p) >= 2 /\ p[2] = "*"
             rest == IF starred THEN SubSeq(p, 3, Len(p)) ELSE Tail(p)
         IN <<[kind |-> kind, ch |-> c, star |-> starred]>> \o ParseItems(rest)

\* re.compile raises re.error: unterminated group or set, nothing to repeat,
\* multiple repeat
CompileFails(p) ==
    \/ \E i \in 1..Len(p) : p[i] \in {"(", "["}
    \/ \E i \in 1..Len(p) :
          /\ p[i] = "*"
          /\ (i = 1 \/ p[i - 1] \in {"*", "^", "$"})

\* the characters '{n}' of a repetition whose count n is MAXREPEAT or more, as
\* one element of a text
RepeatTooLarge == "{4294967295}"

OverflowError == <<"OverflowError">>

\* the parser meets an error in q that it reports before it reads on: an
\* unterminated set, or a '*' with nothing to repeat (an unterminated group is
\* only reported at the end of the pattern)
ErrorAtOnce(q) ==
    \/ \E i \in 1..Len(q) : q[i] = "["
    \/ \E i \in 1..Len(q) : q[i] = "*" /\ (i = 1 \/ q[i - 1] \in {"*", "^", "$"})

\* re.compile raises OverflowError ('the repetition number is too large'),
\* which is not an re.error
CompileOverflows(p) ==
    \E i \in 1..Len(p) : p[i] = RepeatTooLarge /\ ~ErrorAtOnce(SubSeq(p, 1, i - 1))

ItemMatches(item, c) ==
    \/ item.kind = "any"
    \/ item.kind = "lit" /\ LowerChar(item.ch) = LowerChar(c)

\* the items from k on match text at position pos
RECURSIVE MatchAt(_, _, _, _)
MatchAt(items, k, text, pos) ==
    IF k > Len(items) THEN TRUE
    ELSE LET item == items[k] IN
         CASE item.kind = "bol" -> pos = 1 /\ MatchAt(items, k + 1, text, pos)
           [] item.kind = "eol" -> pos = Len(text) + 1 /\ MatchAt(items, k + 1, text, pos)
           [] item.star ->
                \E n \in 0..(Len(text) - pos + 1) :
                    /\ \A j \in pos..(pos + n - 1) : ItemMatches(item, text[j])
                    /\ MatchAt(items, k + 1, text, pos + n)
           [] OTHER ->
                /\ pos <= Len(text)
                /\ ItemMatches(item, text[pos])
                /\ MatchAt(items, k + 1, text, pos + 1)

\* pattern.search(text) is not None, for a pattern that compiled
Search(p, text) ==
    \E s \in 1..(Len(text) + 1) : MatchAt(ParseItems(p), 1, text, s)

-----------------------------------------------------------------------------
(* Constants of the program *)

UNKNOWN_VALUE == <<"U", "n", "k", "n", "o", "w", "n">>

Uninitialized == <<"U", "n", "i", "n", "i", "t", "i", "a", "l", "i", "z", "e", "d">>

INVALID_SERIALS ==
    { <<"U", "n", "s", "p", "e", "c", "i", "f", "i", "e", "d">>,
      <<"N", "o", "t", " ", "S", "p", "e", "c", "i", "f", "i", "e", "d">>,
      <<"0">> }

ZeroIp == <<"0", ".", "0", ".", "0", ".", "0">>

MgmtPrefix == <<"1", "0", ".">>

DataPrefix == <<"1", "7", "2", ".", "1", "6", ".">>

\* first character of the hostname line of systemctl_status.txt
Bullet == "bullet"

-----------------------------------------------------------------------------
(* A bundle directory, as the contents the extractors read.                 *)
(*   systemctl  first line of systemctl_output/systemctl_status.txt         *)
(*   monitor    monitor_result.json: node.info fields and the nics in order *)
(*   pc         config/platform.config as parsed by PlatformConfig          *)
(*   cn         vast-configure_network.py-params.ini key/value pairs        *)
(*   lanPrint   per ipmitool_lan_print_*.txt: its first 'IP Address' match  *)
(*   ipmiCmds   the addresses of the 'stdout IP Address' lines              *)
(*   bmcFru     bmc_logs/*/fru.log: 'Chassis Serial' of sections FRU 0, 1   *)
(*   dmi        dmidecode.txt: Serial Number of each Chassis Information    *)
(*   fru        ipmitool_fru_list.txt: first Chassis Serial / Board Serial  *)
(*   fruId0     ipmitool_fru_list.txt: the Chassis Serial that follows the  *)
(*              header of FRU device ID 0                                   *)
(*   lspci      lspci_vvv_info: first '[SN] Serial number'                  *)
(*   args       METADATA/BUNDLE_ARGS: create_time / start_time texts        *)
(*   nvmeCli    nvme_cli_list.json drives + nvrams                          *)
(*   nvmeList   nvme_list.json Devices                                      *)
(*   pdb        the PDB: found with the node's object, fails, drive + nvram *)
(*   mtime      modification time of the bundle directory, as a datetime    *)
(*   fault      the one source file that exists but cannot be used, and why *)
(* None stands for a missing file, key or match.                            *)

\* every source file is as the other fields describe it
NoFault == [file |-> "none", kind |-> "none"]

NoTime == [given |-> FALSE, secs |-> 0, micro |-> 0, wellFormed |-> FALSE]

BaseBundle ==
    [ systemctl |-> None,
      monitor   |-> [present |-> FALSE, name |-> None, position |-> None,
                     serial |-> None, nics |-> <<>>],
      pc        |-> [present |-> FALSE, node_ip |-> None, node_type |-> None],
      cn        |-> [present |-> FALSE, template |-> None, node |-> None,
                     ext_ip |-> None, ipmi_ip |-> None],
      lanPrint  |-> <<>>,
      ipmiCmds  |-> <<>>,
      bmcFru    |-> [present |-> FALSE, fru0 |-> None, fru1 |-> None],
      dmi       |-> <<>>,
      fru       |-> [present |-> FALSE, chassis |-> None, board |-> None],
      fruId0    |-> None,
      lspci     |-> None,
      args      |-> [create_time |-> NoTime, start_time |-> NoTime],
      nvmeCli   |-> [present |-> FALSE, drives |-> <<>>],
      nvmeList  |-> [present |-> FALSE, devices |-> <<>>],
      pdb       |-> [available |-> FALSE, failed |-> FALSE, devices |-> <<>>],
      mtime     |-> 1,
      fault     |-> NoFault ]

-----------------------------------------------------------------------------
(* Node: the resolved fields of one bundle b *)

\* Node.hostname
Hostname(b) ==
    IF b.systemctl = None THEN None
    ELSE LET first_line == Strip(b.systemctl) IN
         IF first_line # <<>> /\ Head(first_line) = Bullet
         THEN Strip(Tail(first_line))
         ELSE None

\* Node._node_info: present is FALSE for the empty dict
NodeInfo(b) ==
    IF ~b.monitor.present
    THEN [present |-> FALSE, name |-> None, position |-> None, serial_number |-> None]
    ELSE [present |-> TRUE,
          name |-> IF b.monitor.name = None THEN <<>> ELSE b.monitor.name,
          position |-> IF b.monitor.position = None THEN <<>> ELSE b.monitor.position,
          serial_number |-> IF b.monitor.serial = None THEN <<>> ELSE b.monitor.serial]

\* Node.name
Name(b) ==
    IF Truthy(Hostname(b)) THEN Hostname(b)
    ELSE IF NodeInfo(b).present THEN NodeInfo(b).name ELSE UNKNOWN_VALUE

\* Node.position
Position(b) == IF NodeInfo(b).present THEN NodeInfo(b).position ELSE UNKNOWN_VALUE

\* Node._get_data_ip_from_platform_config
DataIpFromPlatformConfig(b) ==
    IF b.pc.present /\ Truthy(b.pc.node_ip) THEN b.pc.node_ip ELSE None

\* the addresses of the nics with the data-network prefix, in file order
RECURSIVE DataIpCandidates(_)
DataIpCandidates(nics) ==
    IF nics = <<>> THEN <<>>
    ELSE (IF Truthy(Head(nics).address) /\ StartsWith(Head(nics).address, DataPrefix)
          THEN <<Head(nics).address>> ELSE <<>>) \o DataIpCandidates(Tail(nics))

\* the nics whose address has the management prefix, in file order
RECURSIVE MgmtNics(_)
MgmtNics(nics) ==
    IF nics = <<>> THEN <<>>
    ELSE (IF Truthy(Head(nics).address) /\ StartsWith(Head(nics).address, MgmtPrefix)
          THEN <<Head(nics)>> ELSE <<>>) \o MgmtNics(Tail(nics))

\* min(data_ips)
LowestDataIp(data_ips) == MinStr(data_ips)

\* Node._get_ips_from_monitor_data
IpsFromMonitorData(b) ==
    IF ~b.monitor.present
    THEN [mgmt_ip |-> None, data_ip |-> None, mac_address |-> None]
    ELSE LET mg == MgmtNics(b.monitor.nics)
             data_ips == DataIpCandidates(b.monitor.nics)
         IN [mgmt_ip |-> IF mg = <<>> THEN None ELSE mg[1].address,
             mac_address |-> IF mg = <<>> THEN None ELSE mg[1].mac,
             data_ip |-> IF data_ips = <<>> THEN None ELSE LowestDataIp(data_ips)]

\* first usable address of a list of matches
RECURSIVE FirstNonZeroIp(_)
FirstNonZeroIp(ips) ==
    IF ips = <<>> THEN None
    ELSE IF Truthy(Head(ips)) /\ Head(ips) # ZeroIp THEN Head(ips)
    ELSE FirstNonZeroIp(Tail(ips))

\* IPMIExtractor.get_ipmi_ip
GetIpmiIp(b) ==
    IF FirstNonZeroIp(b.lanPrint) # None THEN FirstNonZeroIp(b.lanPrint)
    ELSE FirstNonZeroIp(b.ipmiCmds)

\* template.replace('{network}', network).replace('{node}', node_num)
RECURSIVE FillTemplate(_, _, _)
FillTemplate(template, network, node_num) ==
    IF template = <<>> THEN <<>>
    ELSE (CASE Head(template) = "{network}" -> network
            [] Head(template) = "{node}" -> node_num
            [] OTHER -> <<Head(template)>>) \o FillTemplate(Tail(template), network, node_num)

\* Node._get_ips_from_configure_network
IpsFromConfigureNetwork(b) ==
    LET cn == b.cn
        hasData == cn.present /\ cn.template # None /\ cn.node # None /\ IsInt(cn.node)
        hasMgmt == cn.present /\ cn.ext_ip # None
        hasIpmi == cn.present /\ cn.ipmi_ip # None
    IN [data_ip |-> IF hasData
                    THEN FillTemplate(cn.template,
                                      IF ToInt(cn.node) >= 100 THEN <<"3">> ELSE <<"2">>,
                                      cn.node)
                    ELSE None,
        data_ip_from_cn |-> hasData,
        mgmt_ip |-> IF hasMgmt THEN cn.ext_ip ELSE None,
        mgmt_ip_from_cn |-> hasMgmt,
        ipmi_ip |-> IF hasIpmi THEN cn.ipmi_ip ELSE None,
        ipmi_ip_from_cn |-> hasIpmi]

\* the NetworkInfo Node.network builds from what its four sources returned
NetworkOf(pcIp, monitor_ips, ipmi, cn_ips) ==
    [mgmt_ip |-> IF ~Truthy(monitor_ips.mgmt_ip) THEN cn_ips.mgmt_ip
                 ELSE monitor_ips.mgmt_ip,
     ipmi_ip |-> IF ~Truthy(ipmi) THEN cn_ips.ipmi_ip ELSE ipmi,
     mac_address |-> monitor_ips.mac_address,
     data_ip |-> IF Truthy(pcIp) THEN pcIp
                 ELSE IF Truthy(monitor_ips.data_ip) THEN monitor_ips.data_ip
                 ELSE cn_ips.data_ip,
     mgmt_ip_from_cn |-> IF ~Truthy(monitor_ips.mgmt_ip) THEN cn_ips.mgmt_ip_from_cn
                         ELSE FALSE,
     ipmi_ip_from_cn |-> IF ~Truthy(ipmi) THEN cn_ips.ipmi_ip_from_cn ELSE FALSE,
     data_ip_from_cn |-> IF Truthy(pcIp) \/ Truthy(monitor_ips.data_ip) THEN FALSE
                         ELSE cn_ips.data_ip_from_cn]

\* Node.network: every source is evaluated, then the fields are chosen
Network(b) ==
    NetworkOf(DataIpFromPlatformConfig(b), IpsFromMonitorData(b), GetIpmiIp(b),
              IpsFromConfigureNetwork(b))

Dnode == <<"d", "n", "o", "d", "e">>

Cnode == <<"c", "n", "o", "d", "e">>

\* the type a platform.config role names, or none
TypeOfRole(role) ==
    IF Contains(role, Dnode) \/ Contains(role, <<"d", "a", "t", "a">>) THEN "dnode"
    ELSE IF \/ Contains(role, Cnode)
            \/ Contains(role, <<"c", "o", "n", "t", "r", "o", "l">>)
            \/ Contains(role, <<"c", "o", "m", "p", "u", "t", "e">>) THEN "cnode"
    ELSE "none"

\* node_type from the platform.config role, or none
TypeFromPlatformConfig(b) ==
    IF b.pc.present /\ Truthy(b.pc.node_type) THEN TypeOfRole(Lower(b.pc.node_type))
    ELSE "none"

\* the type a lower-cased hostname names, or none
TypeOfHostname(h) ==
    IF Contains(h, Dnode) THEN "dnode" ELSE IF Contains(h, Cnode) THEN "cnode" ELSE "none"

\* node_type from the hostname, or none
TypeFromHostname(b) ==
    IF Truthy(Hostname(b)) THEN TypeOfHostname(Lower(Hostname(b))) ELSE "none"

\* int(data_ip.split('.')[-1]) >= 100, none on ValueError
TypeOfLastOctet(last) ==
    IF IsInt(last) THEN (IF ToInt(last) >= 100 THEN "dnode" ELSE "cnode") ELSE "none"

\* the last element of a non-empty list
Last(parts) == parts[Len(parts)]

\* the type a data IP names, or none
TypeOfDataIp(ip) ==
    IF Truthy(ip) THEN TypeOfLastOctet(Last(SplitDot(ip, <<>>))) ELSE "none"

\* node_type from the last octet of the data IP, or none
TypeFromDataIp(b) == TypeOfDataIp(Network(b).data_ip)

\* a chain that asks the hostname before platform.config
FirstTypeHostnameFirst(fromConfig, fromHostname, fromDataIp) ==
    IF fromHostname # "none" THEN fromHostname
    ELSE IF fromConfig # "none" THEN fromConfig
    ELSE IF fromDataIp # "none" THEN fromDataIp
    ELSE "unknown"

\* the first of the three that names a type
FirstType(fromConfig, fromHostname, fromDataIp) ==
    IF fromConfig # "none" THEN fromConfig
    ELSE IF fromHostname # "none" THEN fromHostname
    ELSE IF fromDataIp # "none" THEN fromDataIp
    ELSE "unknown"

\* Node.node_type
NodeType(b) ==
    FirstType(TypeFromPlatformConfig(b), TypeFromHostname(b), TypeFromDataIp(b))

\* a matched serial that is kept: `serial and serial not in INVALID_SERIALS`
ValidSerial(s) == IF Truthy(s) /\ s \notin INVALID_SERIALS THEN s ELSE None

\* FRUParser.get_chassis_serial() of ipmitool_fru_list.txt
GetChassisSerial(b) == IF b.fru.present THEN ValidSerial(b.fru.chassis) ELSE None

\* FRUParser.get_board_serial
GetBoardSerial(b) == IF b.fru.present THEN b.fru.board ELSE None

\* SerialNumberExtractor.get_node_serial_from_lspci
GetNodeSerialFromLspci(b) == ValidSerial(b.lspci)

\* SerialNumberExtractor.get_box_serial_from_bmc_logs: FRU 1, then FRU 0
GetBoxSerialFromBmcLogs(b) ==
    IF ~b.bmcFru.present THEN None
    ELSE Or(ValidSerial(b.bmcFru.fru1), ValidSerial(b.bmcFru.fru0))

\* SerialNumberExtractor.get_box_serial_from_dmidecode: the last non-empty one
RECURSIVE GetBoxSerialFromDmidecode(_)
GetBoxSerialFromDmidecode(dmi) ==
    IF dmi = <<>> THEN None
    ELSE IF Truthy(dmi[Len(dmi)]) THEN dmi[Len(dmi)]
    ELSE GetBoxSerialFromDmidecode(SubSeq(dmi, 1, Len(dmi) - 1))

\* a candidate the box_serial chain accepts
Accepted(serial) == Truthy(serial) /\ serial # Uninitialized

\* third strategy of Node.box_serial
BoxSerialFromFru(b) == IF b.fru.present THEN GetChassisSerial(b) ELSE None

\* a chain that prefers the serial of ipmitool_fru_list.txt
FirstBoxSerialFruFirst(bmc_fru_serial, serial, fru_serial) ==
    IF Truthy(fru_serial) THEN fru_serial
    ELSE IF Accepted(bmc_fru_serial) THEN bmc_fru_serial
    ELSE serial

\* the first accepted of the first two candidates, else the third as it is
FirstBoxSerial(bmc_fru_serial, serial, fru_serial) ==
    IF Accepted(bmc_fru_serial) THEN bmc_fru_serial
    ELSE IF Accepted(serial) THEN serial
    ELSE fru_serial

\* Node.box_serial
BoxSerial(b) ==
    FirstBoxSerial(GetBoxSerialFromBmcLogs(b), GetBoxSerialFromDmidecode(b.dmi),
                   BoxSerialFromFru(b))

\* FRUParser.get_chassis_serial(fru_id=0) of ipmitool_fru_list.txt
GetChassisSerialOfFru(b) == IF b.fru.present THEN ValidSerial(b.fruId0) ELSE None

\* no DTrayInfo
NoDtray == [present |-> FALSE, serial_number |-> None, ipmi_ip |-> None]

\* the DTrayInfo of a node: only a dnode whose FRU 0 chassis serial is known
\* and is not the box serial has one; it carries the node's IPMI IP
DtrayOf(node_type, dtray_serial, box_serial, ipmi_ip) ==
    IF node_type # "dnode" THEN NoDtray
    ELSE IF Truthy(dtray_serial) /\ dtray_serial = box_serial THEN NoDtray
    ELSE IF Truthy(dtray_serial)
         THEN [present |-> TRUE, serial_number |-> dtray_serial, ipmi_ip |-> ipmi_ip]
         ELSE NoDtray

\* Node.dtray_info (serial number and IPMI IP)
DtrayInfo(b) ==
    DtrayOf(NodeType(b), GetChassisSerialOfFru(b), BoxSerial(b), Network(b).ipmi_ip)

\* Node.is_node_ipmi
IsNodeIpmi(dtray) == ~dtray.present

\* a chain that takes the lspci serial whatever the node type
FirstSerialAnyType(node_type, lspci, board_serial, node_info) ==
    IF Truthy(lspci) THEN lspci
    ELSE IF Truthy(board_serial) THEN board_serial
    ELSE IF node_info.present THEN node_info.serial_number
    ELSE UNKNOWN_VALUE

\* the first non-empty of the lspci serial (DNodes only) and the board serial,
\* else the monitor_result.json serial
FirstSerial(node_type, lspci, board_serial, node_info) ==
    IF node_type = "dnode" /\ Truthy(lspci) THEN lspci
    ELSE IF Truthy(board_serial) THEN board_serial
    ELSE IF node_info.present THEN node_info.serial_number
    ELSE UNKNOWN_VALUE

\* Node.serial_number
SerialNumber(b) ==
    FirstSerial(NodeType(b), GetNodeSerialFromLspci(b), GetBoardSerial(b), NodeInfo(b))

-----------------------------------------------------------------------------
(* Device: one drive of a bundle, by serial.  A JSON record is a record of   *)
(* texts in which None stands for null and Absent for a key that is not      *)
(* there.  The PDB is read through the vapi package of the cluster; the      *)
(* model holds what it gives: whether the PDB and the node's own object are  *)
(* found, whether reading the device lists fails, and the drive and nvram    *)
(* objects in order, each with its serial and whether it is native to the    *)
(* node.  Device.data is modelled for the devices of the two JSON files.     *)

Absent == <<"Absent">>

\* dict.get(key): None for a key that is not there
Get(v) == IF v = Absent THEN None ELSE v

\* dict.get(key, default)
GetOr(v, default) == IF v = Absent THEN default ELSE v

\* str.endswith
EndsWith(s, p) == Len(p) <= Len(s) /\ SubSeq(s, Len(s) - Len(p) + 1, Len(s)) = p

\* device_path.replace('/dev/', '/')
RECURSIVE ReplaceDev(_)
ReplaceDev(s) ==
    IF s = <<>> THEN <<>>
    ELSE IF StartsWith(s, <<"/", "d", "e", "v", "/">>)
         THEN <<"/">> \o ReplaceDev(SubSeq(s, 6, Len(s)))
         ELSE <<Head(s)>> \o ReplaceDev(Tail(s))

\* the first record of a list whose serial field is the serial, as <<record>>, or <<>>
FirstWithSerial(records, serial) ==
    LET hits == SelectSeq(records, LAMBDA r : Get(r.serial) = serial)
    IN IF hits = <<>> THEN <<>> ELSE <<hits[1]>>

\* Device._get_location_from_nvme_cli_by_path: "found", "none", or the
\* AttributeError of None.endswith on a drive whose path is null
RECURSIVE LocationScan(_, _)
LocationScan(drives, device_path) ==
    IF drives = <<>> THEN "none"
    ELSE LET drive_path == GetOr(Head(drives).path, <<>>) IN
         IF drive_path = device_path THEN "found"
         ELSE IF drive_path = None THEN "AttributeError"
         ELSE IF EndsWith(drive_path, ReplaceDev(device_path)) THEN "found"
         ELSE LocationScan(Tail(drives), device_path)

GetLocationFromNvmeCliByPath(b, device_path) ==
    IF ~Truthy(device_path) THEN "none"
    ELSE IF ~b.nvmeCli.present THEN "none"
    ELSE LocationScan(b.nvmeCli.drives, device_path)

\* Device.data: the record of the device, from nvme_cli_list.json, then from
\* nvme_list.json; found is FALSE for None
DeviceData(b, serial) ==
    LET cli == IF b.nvmeCli.present THEN FirstWithSerial(b.nvmeCli.drives, serial) ELSE <<>>
        lst == IF b.nvmeList.present THEN FirstWithSerial(b.nvmeList.devices, serial) ELSE <<>>
    IN IF cli # <<>>
       THEN [found |-> TRUE, raised |-> FALSE, source |-> "nvme_cli_list",
             model |-> cli[1].model, path |-> cli[1].path]
       ELSE IF lst # <<>>
       THEN [found |-> TRUE,
             raised |-> GetLocationFromNvmeCliByPath(b, Get(lst[1].path)) = "AttributeError",
             source |-> "nvme_list",
             model |-> Get(lst[1].model), path |-> Get(lst[1].path)]
       ELSE [found |-> FALSE, raised |-> FALSE, source |-> "none",
             model |-> Absent, path |-> Absent]

\* Device.model
DeviceModel(b, serial) ==
    IF DeviceData(b, serial).found THEN GetOr(DeviceData(b, serial).model, UNKNOWN_VALUE)
    ELSE UNKNOWN_VALUE

\* Device.path
DevicePath(b, serial) ==
    IF DeviceData(b, serial).found THEN GetOr(DeviceData(b, serial).path, UNKNOWN_VALUE)
    ELSE UNKNOWN_VALUE

\* a JSON number
JsonInt(n) == <<"int", n>>

\* the value of a key of a JSON record, Absent for a key that is not there
Field(r, key) == IF key \in DOMAIN r THEN r[key] ELSE Absent

\* Device._get_location_from_nvme_cli_by_path: the first drive whose path is
\* the device path or ends with it, as <<drive>>, or <<>>
RECURSIVE LocationDrive(_, _)
LocationDrive(drives, device_path) ==
    IF drives = <<>> THEN <<>>
    ELSE LET drive_path == GetOr(Head(drives).path, <<>>) IN
         IF drive_path = device_path THEN <<Head(drives)>>
         ELSE IF drive_path = None THEN <<>>
         ELSE IF EndsWith(drive_path, ReplaceDev(device_path)) THEN <<Head(drives)>>
         ELSE LocationDrive(Tail(drives), device_path)

\* the two positional keys of a record of nvme_cli_list.json, None without one
PositionalData(records) ==
    IF records = <<>> THEN [pci_switch_position |-> None, pci_switch_slot |-> None]
    ELSE [pci_switch_position |-> Get(Field(records[1], "pci_switch_position")),
          pci_switch_slot |-> Get(Field(records[1], "pci_switch_slot"))]

\* Device.pci_switch_position and Device.pci_switch_slot over Device.data: the
\* record of nvme_cli_list.json with the serial, else the one of nvme_list.json
\* with the location of the drive that has its path
DeviceLocation(b, serial) ==
    LET cli == IF b.nvmeCli.present THEN FirstWithSerial(b.nvmeCli.drives, serial) ELSE <<>>
        lst == IF b.nvmeList.present THEN FirstWithSerial(b.nvmeList.devices, serial) ELSE <<>>
    IN IF cli # <<>> THEN PositionalData(cli)
       ELSE IF lst # <<>> /\ Truthy(Get(lst[1].path)) /\ b.nvmeCli.present
       THEN PositionalData(LocationDrive(b.nvmeCli.drives, Get(lst[1].path)))
       ELSE PositionalData(<<>>)

\* truthiness of a JSON text or number
TruthyValue(v) == Truthy(v) /\ v # JsonInt(0)

\* str(n)
RECURSIVE IntText(_)
IntText(n) ==
    IF n < 10 THEN <<Digits[n + 1]>> ELSE IntText(n \div 10) \o <<Digits[(n % 10) + 1]>>

\* Device.location_in_box over the two coordinates
LocationInBox(position, slot) ==
    IF TruthyValue(position) /\ TruthyValue(slot)
    THEN position \o <<"-">> \o (IF slot[1] = "int" THEN IntText(slot[2]) ELSE slot)
    ELSE UNKNOWN_VALUE

\* the list of indicators in Device.drive_type
nvram_indicators ==
    << <<"o", "p", "t", "a", "n", "e">>,
       <<"d", "c", "p", "m", "m">>,
       <<"s", "s", "d", "p", "e", "2", "1", "k">>,
       <<"s", "s", "d", "p", "f", "2", "1">>,
       <<"s", "c", "m">>,
       <<"n", "v", "d", "i", "m", "m">>,
       <<"p", "m", "e", "m">>,
       <<"p", "a", "s", "c", "a", "r", "i">> >>

\* `indicator in model_lower or indicator in path_lower` for some indicator
HasIndicator(model_lower, path_lower) ==
    \E k \in 1..Len(nvram_indicators) :
        \/ Contains(model_lower, nvram_indicators[k])
        \/ Contains(path_lower, nvram_indicators[k])

\* Device.drive_type: 'nvram', 'ssd', or the AttributeError of None.lower()
DriveType(b, serial) ==
    IF DeviceData(b, serial).raised THEN "AttributeError"
    ELSE IF DeviceModel(b, serial) = None THEN "AttributeError"
    ELSE IF DevicePath(b, serial) = None THEN "AttributeError"
    ELSE IF HasIndicator(Lower(DeviceModel(b, serial)), Lower(DevicePath(b, serial)))
    THEN "nvram" ELSE "ssd"

\* the serials of a list of records, first occurrences, without those of seen
RECURSIVE NewSerials(_, _)
NewSerials(records, seen) ==
    IF records = <<>> THEN <<>>
    ELSE LET serial == Get(Head(records).serial) IN
         IF Truthy(serial) /\ serial \notin seen
         THEN <<serial>> \o NewSerials(Tail(records), seen \cup {serial})
         ELSE NewSerials(Tail(records), seen)

\* the two inventories appended without the set of serials already seen
NodeDevicesAppended(b) ==
    (IF b.nvmeCli.present THEN NewSerials(b.nvmeCli.drives, {}) ELSE <<>>)
    \o (IF b.nvmeList.present THEN NewSerials(b.nvmeList.devices, {}) ELSE <<>>)

\* the first stage of Node.devices: the serials of the PDB devices native to
\* the node, none when the PDB or the node's object is not found or when
\* reading the lists raises
PdbNativeDevices(b) ==
    IF b.pdb.available /\ ~b.pdb.failed
    THEN LET native == SelectSeq(b.pdb.devices, LAMBDA d : d.native)
         IN [k \in 1..Len(native) |-> native[k].serial]
    ELSE <<>>

\* a device list that adds the JSON devices to those of the PDB
DevicesFromBoth(pdb_devices, json_devices) == pdb_devices \o json_devices

\* `if devices: return devices`, else the devices of the JSON files
DevicesFrom(pdb_devices, json_devices) ==
    IF pdb_devices # <<>> THEN pdb_devices ELSE json_devices

\* Node.devices: the serials of the devices of the node, in order
NodeDevices(b) ==
    LET fromCli == IF b.nvmeCli.present THEN NewSerials(b.nvmeCli.drives, {}) ELSE <<>>
        seen == { fromCli[k] : k \in 1..Len(fromCli) }
    IN DevicesFrom(PdbNativeDevices(b),
                   fromCli \o (IF b.nvmeList.present
                               THEN NewSerials(b.nvmeList.devices, seen) ELSE <<>>))

-----------------------------------------------------------------------------
(* Bundle: creation time.  A time text is [given, secs, micro, wellFormed]:  *)
(* the text "<date and time secs>.<micro>", wellFormed when the part before  *)
(* the '.' has the form %Y-%m-%d %H:%M:%S.  Datetimes are numbers, with      *)
(* datetime.min the least.                                                  *)

DatetimeMin == 0

\* Bundle.create_time: the first of create_time / start_time, cut at the '.'
CreateTime(b) ==
    LET t == IF b.args.create_time.given THEN b.args.create_time ELSE b.args.start_time
    IN [t EXCEPT !.micro = 0]

\* Bundle.create_datetime, with None as DatetimeMin - 1
CreateDatetime(b) ==
    LET t == CreateTime(b) IN
    IF t.given /\ t.wellFormed THEN DatetimeMin + t.secs ELSE DatetimeMin - 1

\* bundle.create_datetime or datetime.min
Timestamp(b) ==
    IF CreateDatetime(b) = DatetimeMin - 1 THEN DatetimeMin ELSE CreateDatetime(b)

-----------------------------------------------------------------------------
(* ClusterDiscovery.filter_latest_bundles_per_node *)

\* hostname = node.hostname or node.name
GroupKey(b) == Or(Hostname(b), Name(b))

\* the grouped bundles taken in the reverse of the input order
GroupedBackwards(bs) ==
    LET idx == SelectSeq([i \in 1..Len(bs) |-> i], LAMBDA i : Truthy(GroupKey(bs[i])))
    IN [k \in 1..Len(idx) |-> idx[Len(idx) + 1 - k]]

\* the bundles of bs (indexes) that are grouped, in input order
Grouped(bs) == SelectSeq([i \in 1..Len(bs) |-> i], LAMBDA i : Truthy(GroupKey(bs[i])))

\* the keys of node_bundles in insertion order, each by its first bundle
RECURSIVE FirstOfGroups(_, _)
FirstOfGroups(bs, idx) ==
    IF idx = <<>> THEN <<>>
    ELSE LET rest == FirstOfGroups(bs, SubSeq(idx, 1, Len(idx) - 1))
             i == idx[Len(idx)]
         IN IF \E k \in 1..Len(rest) : GroupKey(bs[rest[k]]) = GroupKey(bs[i])
            THEN rest ELSE Append(rest, i)

\* a selection that keeps the first bundle of the group, whatever its timestamp
LatestOfKeepsFirst(bs, members) == members[1]

\* max(bundle_list, key=lambda x: x[1]): the first bundle with the greatest timestamp
LatestOf(bs, members) ==
    LET best == CHOOSE k \in 1..Len(members) :
                    /\ \A j \in 1..Len(members) :
                           Timestamp(bs[members[j]]) <= Timestamp(bs[members[k]])
                    /\ \A j \in 1..(k - 1) :
                           Timestamp(bs[members[j]]) < Timestamp(bs[members[k]])
    IN members[best]

\* filter_latest_bundles_per_node: indexes of the surviving bundles
FilterLatestBundlesPerNode(bs) ==
    LET firsts == FirstOfGroups(bs, Grouped(bs))
    IN [g \in 1..Len(firsts) |->
           LatestOf(bs, SelectSeq(Grouped(bs),
                                  LAMBDA i : GroupKey(bs[i]) = GroupKey(bs[firsts[g]])))]

-----------------------------------------------------------------------------
(* Cluster: matching and grouping over the bundles cl (indexes into bs) *)

\* Cluster._quick_hostname_check
QuickHostnameCheck(b) ==
    IF b.systemctl = None THEN None
    ELSE LET first_line == Strip(b.systemctl) IN
         IF first_line # <<>> /\ Head(first_line) = Bullet
         THEN Strip(Tail(first_line))
         ELSE None

\* Cluster._create_search_pattern: the identifier looks like a regex
HasRegexChars(identifier) ==
    \/ Contains(identifier, <<".", "*">>)
    \/ \E i \in 1..Len(identifier) : identifier[i] \in {"[", "^", "$"}

\* Cluster._create_search_pattern: is_regex
IsRegex(identifier) == HasRegexChars(identifier) /\ ~CompileFails(identifier)

\* Cluster._fast_hostname_search
FastHostnameSearch(bs, cl, identifier) ==
    SelectSeq(cl, LAMBDA i :
        LET hostname == QuickHostnameCheck(bs[i]) IN
        /\ Truthy(hostname)
        /\ \/ hostname = identifier
           \/ IsRegex(identifier) /\ Search(identifier, hostname)
           \/ Contains(Lower(hostname), Lower(identifier)))

\* one of the two addresses of a NetworkInfo is the identifier
IpEquals(network, identifier) ==
    network.mgmt_ip = identifier \/ network.data_ip = identifier

\* the condition of Cluster._exact_match_search
ExactFieldMatch(b, identifier) ==
    \/ Name(b) = identifier
    \/ SerialNumber(b) = identifier
    \/ IpEquals(Network(b), identifier)
    \/ BoxSerial(b) = identifier

\* Cluster._exact_match_search
ExactMatchSearch(bs, cl, identifier) ==
    SelectSeq(cl, LAMBDA i : ExactFieldMatch(bs[i], identifier))

\* the pattern matches one of the two addresses of a NetworkInfo ('' for None)
IpMatches(network, pattern) ==
    \/ Search(pattern, Or(network.mgmt_ip, <<>>))
    \/ Search(pattern, Or(network.data_ip, <<>>))

\* the condition of Cluster._regex_match_search
RegexFieldMatch(b, pattern) ==
    \/ Search(pattern, Name(b))
    \/ Search(pattern, Or(SerialNumber(b), <<>>))
    \/ IpMatches(Network(b), pattern)
    \/ Search(pattern, Or(BoxSerial(b), <<>>))

\* Cluster._regex_match_search
RegexMatchSearch(bs, cl, pattern) ==
    SelectSeq(cl, LAMBDA i : RegexFieldMatch(bs[i], pattern))

\* the stages of Cluster.find_node over the results of its three searches: the
\* hostname candidates when there are any (whether or not one is named exactly
\* like the identifier), else the exact matches, else the regex matches
FindStages(is_regex, compiles, candidates, exact, regex) ==
    IF candidates # <<>> THEN candidates
    ELSE IF exact # <<>> THEN exact
    ELSE IF is_regex \/ compiles THEN regex
    ELSE <<>>

\* Cluster.find_node
FindNode(bs, cl, identifier) ==
    FindStages(IsRegex(identifier), ~CompileFails(identifier),
               FastHostnameSearch(bs, cl, identifier),
               ExactMatchSearch(bs, cl, identifier),
               RegexMatchSearch(bs, cl, identifier))

\* find_node reaches a re.compile that raises OverflowError: the one of
\* _create_search_pattern, or the one of the fallback stage once the hostname
\* and the exact search found nothing
RaisesAtCompile(overflows, looks_regex, candidates, exact) ==
    overflows /\ (looks_regex \/ (candidates = <<>> /\ exact = <<>>))

\* Cluster.find_node ends with an exception
FindNodeRaises(bs, cl, identifier) ==
    RaisesAtCompile(CompileOverflows(identifier), HasRegexChars(identifier),
                    FastHostnameSearch(bs, cl, identifier),
                    ExactMatchSearch(bs, cl, identifier))

\* Bundle.find_device: the node of the bundle has a device with this serial
BundleFindDevice(b, serial) ==
    \E k \in 1..Len(NodeDevices(b)) : NodeDevices(b)[k] = serial

\* Cluster.find_device: the first bundle with such a device, 0 for None
ClusterFindDevice(bs, serial) ==
    IF \E i \in 1..Len(bs) : BundleFindDevice(bs[i], serial)
    THEN CHOOSE i \in 1..Len(bs) :
            /\ BundleFindDevice(bs[i], serial)
            /\ \A j \in 1..(i - 1) : ~BundleFindDevice(bs[j], serial)
    ELSE 0

\* Cluster.nodes_by_box
NodesByBox(bs, cl, box_serial) ==
    SelectSeq(cl, LAMBDA i : BoxSerial(bs[i]) = box_serial)

\* tuple comparison of integer keys
RECURSIVE KeyLess(_, _)
KeyLess(a, b) ==
    IF a = <<>> \/ b = <<>> THEN a = <<>> /\ b # <<>>
    ELSE IF a[1] = b[1] THEN KeyLess(Tail(a), Tail(b))
    ELSE a[1] < b[1]

\* list.sort(key=...) / sorted(key=...): stable, key given per element
RECURSIVE SortedBy(_, _)
SortedBy(seq, key) ==
    IF seq = <<>> THEN <<>>
    ELSE LET init == SortedBy(SubSeq(seq, 1, Len(seq) - 1), key)
             x == seq[Len(seq)]
             n == Cardinality({k \in 1..Len(init) : ~KeyLess(key[x], key[init[k]])})
         IN SubSeq(init, 1, n) \o <<x>> \o SubSeq(init, n + 1, Len(init))

\* the other nodes of the box in the order of the cluster, not sorted
SiblingsUnsorted(bs, cl, node) ==
    SelectSeq(NodesByBox(bs, cl, BoxSerial(bs[node])), LAMBDA i : i # node)

\* main_impl, single match: the siblings of node
Siblings(bs, cl, node) ==
    LET others == SelectSeq(NodesByBox(bs, cl, BoxSerial(bs[node])), LAMBDA i : i # node)
    IN SortedBy(others, [i \in 1..Len(bs) |-> <<get_ip_last_octet(Network(bs[i]).data_ip)>>])

\* ip_to_sort_key
ip_to_sort_key(ip) ==
    IF ~Truthy(ip) THEN <<0, 0, 0, 0>>
    ELSE LET octets == SplitDot(ip, <<>>) IN
         IF Len(octets) # 4 \/ \E k \in 1..Len(octets) : ~IsInt(octets[k])
         THEN <<0, 0, 0, 0>>
         ELSE [k \in 1..4 |-> ToInt(octets[k])]

\* list_nodes: a box serial that groups its nodes
KnownBox(box_serial) == Truthy(box_serial) /\ box_serial # UNKNOWN_VALUE

\* list_nodes over the columns of the nodes: the box groups ordered by their
\* lowest management IP, each ordered by row key, then the nodes without a box
GroupRows(list, box, mgmtKey, rowKey) ==
    LET known == SelectSeq(list, LAMBDA i : KnownBox(box[i]))
        unknown == SelectSeq(list, LAMBDA i : ~KnownBox(box[i]))
        firsts == SelectSeq(known, LAMBDA i :
                      \A k \in 1..Len(known) :
                          known[k] = i => \A j \in 1..(k - 1) : box[known[j]] # box[i])
        members == [i \in 1..Len(box) |-> SelectSeq(known, LAMBDA j : box[j] = box[i])]
        boxKey == [i \in 1..Len(box) |->
                      IF members[i] = <<>> THEN <<>>
                      ELSE mgmtKey[SortedBy(members[i], mgmtKey)[1]]]
        boxes == SortedBy(firsts, boxKey)
    IN [g \in 1..Len(boxes) |-> SortedBy(members[boxes[g]], rowKey)]
       \o [u \in 1..Len(unknown) |-> <<unknown[u]>>]

\* the sort key of a node inside its box: bottom first, then by data IP
RowKey(position, data_ip) ==
    <<IF position # <<"b", "o", "t", "t", "o", "m">> THEN 1 ELSE 0,
      get_ip_last_octet(data_ip)>>

\* list_nodes: the groups in display order, each a list of nodes in display order
ListNodes(bs, list) ==
    GroupRows(list,
              [i \in 1..Len(bs) |-> BoxSerial(bs[i])],
              [i \in 1..Len(bs) |-> ip_to_sort_key(Network(bs[i]).mgmt_ip)],
              [i \in 1..Len(bs) |-> RowKey(Position(bs[i]), Network(bs[i]).data_ip)])

-----------------------------------------------------------------------------
(* RMA form: the siblings grouped by DTray and the IP rows of the table.    *)
(* The other rows of the table (names, positions, serials, MCU state) are   *)
(* left out.                                                                *)

\* the marker of a value taken from vast-configure_network.py-params.ini
CnMarker == <<" ", "(", "!", "c", "n", ")">>

\* `value or ""`, with the marker appended when from_cn is set and the text is
\* not empty
IpText(value, from_cn) ==
    LET str == Or(value, <<>>) IN IF from_cn /\ str # <<>> THEN str \o CnMarker ELSE str

\* one IP row of the table: the section it stands in, the node whose value it
\* shows, its label and the text printed
IpRow(section, node, label, text) ==
    [section |-> section, node |-> node, label |-> label, text |-> text]

\* _add_node_details_to_table: the IP rows of node i
NodeDetails(section, i, network, dtray) ==
    <<IpRow(section, i, "IP", IpText(network.data_ip, network.data_ip_from_cn)),
      IpRow(section, i, "MGMT IP", IpText(network.mgmt_ip, network.mgmt_ip_from_cn))>>
    \o (IF IsNodeIpmi(dtray)
        THEN <<IpRow(section, i, "IPMI IP",
                     IpText(network.ipmi_ip, network.ipmi_ip_from_cn))>>
        ELSE <<>>)

\* the 'IPMI IP' row of an 'associated DTray' or 'other DTray' section, shown
\* when node i has DTray info
DtrayRows(section, i, dtray) ==
    IF dtray.present THEN <<IpRow(section, i, "IPMI IP", Or(dtray.ipmi_ip, <<>>))>>
    ELSE <<>>

\* `x.dtray_info.serial_number if x.dtray_info else None`
DtraySerial(dtray) == IF dtray.present THEN dtray.serial_number ELSE None

\* a grouping that keeps in the first group only the siblings of the primary
\* node's own DTray
SameDtrayStrict(primary, siblings, serialOf) ==
    SelectSeq(siblings, LAMBDA s : serialOf[s] = primary)

\* _group_siblings_by_dtray, first result: the siblings with the primary
\* node's DTray serial or with none
SameDtray(primary, siblings, serialOf) ==
    SelectSeq(siblings, LAMBDA s : serialOf[s] = primary \/ serialOf[s] = None)

\* _group_siblings_by_dtray, second result: the other siblings by DTray serial
OtherDtray(primary, siblings, serialOf) ==
    LET keys == { serialOf[siblings[k]] : k \in DOMAIN siblings } \ {primary, None}
    IN [key \in keys |-> SelectSeq(siblings, LAMBDA s : serialOf[s] = key)]

\* _group_siblings_by_dtray
GroupSiblingsByDtray(node, siblings, dtrays) ==
    LET serialOf == [i \in DOMAIN dtrays |-> DtraySerial(dtrays[i])]
    IN [same |-> SameDtray(serialOf[node], siblings, serialOf),
        other |-> OtherDtray(serialOf[node], siblings, serialOf)]

\* sorted() of a set of str
RECURSIVE SortedStrs(_)
SortedStrs(S) ==
    IF S = {} THEN <<>>
    ELSE LET m == CHOOSE x \in S : \A y \in S : x = y \/ StrLess(x, y)
         IN <<m>> \o SortedStrs(S \ {m})

\* the IP rows of the nodes of list, each under the given section
RECURSIVE DetailsOf(_, _, _, _)
DetailsOf(section, list, networks, dtrays) ==
    IF list = <<>> THEN <<>>
    ELSE NodeDetails(section, Head(list), networks[Head(list)], dtrays[Head(list)])
         \o DetailsOf(section, Tail(list), networks, dtrays)

\* the rows of the 'other DTray' sections: per DTray serial in sorted order,
\* the DTray of its first sibling, then its siblings with 'bottom' first
RECURSIVE OtherRows(_, _, _, _, _)
OtherRows(keys, other, networks, dtrays, positions) ==
    IF keys = <<>> THEN <<>>
    ELSE LET group == other[Head(keys)]
             key == [i \in DOMAIN positions |->
                        <<IF positions[i] = <<"b", "o", "t", "t", "o", "m">> THEN 0 ELSE 1>>]
         IN DtrayRows("other DTray", group[1], dtrays[group[1]])
            \o DetailsOf("other", SortedBy(group, key), networks, dtrays)
            \o OtherRows(Tail(keys), other, networks, dtrays, positions)

\* _render_node_and_siblings with include_dtray: the IP rows in table order
RenderRows(node, grouped, networks, dtrays, positions) ==
    DtrayRows("associated DTray", node, dtrays[node])
    \o NodeDetails("node", node, networks[node], dtrays[node])
    \o DetailsOf("sibling", grouped.same, networks, dtrays)
    \o OtherRows(SortedStrs(DOMAIN grouped.other), grouped.other, networks, dtrays,
                 positions)

\* show_node_rma_form: the grouping of the siblings and the IP rows shown
NodeForm(bs, node, siblings) ==
    LET networks == [i \in 1..Len(bs) |-> Network(bs[i])]
        dtrays == [i \in 1..Len(bs) |->
                      DtrayOf(NodeType(bs[i]), GetChassisSerialOfFru(bs[i]),
                              BoxSerial(bs[i]), networks[i].ipmi_ip)]
        positions == [i \in 1..Len(bs) |-> Position(bs[i])]
        grouped == GroupSiblingsByDtray(node, siblings, dtrays)
    IN [same |-> grouped.same, other |-> grouped.other,
        rows |-> RenderRows(node, grouped, networks, dtrays, positions)]

-----------------------------------------------------------------------------
(* Lazy evaluation: cached_property fields of a Node and what computing one *)
(* of them evaluates.                                                       *)

Props == {"hostname", "name", "position", "network", "node_type", "box_serial",
          "serial_number"}

\* the value a cached_property holds once computed
ValueOf(p, b) ==
    CASE p = "hostname" -> Hostname(b)
      [] p = "name" -> Name(b)
      [] p = "position" -> Position(b)
      [] p = "network" -> Network(b)
      [] p = "node_type" -> NodeType(b)
      [] p = "box_serial" -> BoxSerial(b)
      [] p = "serial_number" -> SerialNumber(b)

\* some field of the configure_network fallback has a value
AnyFromCn(cn_ips) ==
    cn_ips.data_ip_from_cn \/ cn_ips.mgmt_ip_from_cn \/ cn_ips.ipmi_ip_from_cn

\* Node.network formats self.name into a debug line when a source gives an IP
NetworkReadsName(b) ==
    \/ Truthy(DataIpFromPlatformConfig(b))
    \/ b.monitor.present /\ DataIpCandidates(b.monitor.nics) # <<>>
    \/ AnyFromCn(IpsFromConfigureNetwork(b))

\* the cached properties Node.node_type reads, by what its three sources name
NodeTypeDeps(fromConfig, fromHostname, fromDataIp) ==
    IF fromConfig # "none" THEN {"name"}
    ELSE IF fromHostname # "none" THEN {"hostname", "name"}
    ELSE IF fromDataIp # "none" THEN {"hostname", "network", "name"}
    ELSE {"hostname", "network"}

\* the other cached properties the body of property p reads
Deps(p, b) ==
    CASE p = "name" -> {"hostname"}
      [] p = "network" -> IF NetworkReadsName(b) THEN {"name"} ELSE {}
      [] p = "node_type" ->
            NodeTypeDeps(TypeFromPlatformConfig(b), TypeFromHostname(b), TypeFromDataIp(b))
      [] p = "serial_number" -> {"node_type"}
      [] OTHER -> {}

\* one round of reads: the bodies of the properties of todo that are not cached
\* run and read their own dependencies
ReadRound(b, todo, seen) == todo \cup UNION { Deps(p, b) : p \in todo \ seen }

\* the properties read when those of todo are read, after n rounds
RECURSIVE ReadClosure(_, _, _, _)
ReadClosure(b, todo, seen, n) ==
    IF n = 0 THEN todo ELSE ReadClosure(b, ReadRound(b, todo, seen), seen, n - 1)

\* properties without a cache: every read runs the body again
ComputedAgain(b, todo, seen) == ReadClosure(b, todo, {}, 4)

\* the properties computed when those of todo are read with those of seen cached;
\* the longest chain of reads is serial_number, node_type, network, name, hostname
Computed(b, todo, seen) == ReadClosure(b, todo, seen, 4) \ seen

\* The strategies of the fallback chains, "<field>:<source>", in priority order
Chains ==
    [ data_ip |-> <<"data_ip:platform_config", "data_ip:monitor",
                    "data_ip:configure_network">>,
      mgmt_ip |-> <<"mgmt_ip:monitor", "mgmt_ip:configure_network">>,
      ipmi_ip |-> <<"ipmi_ip:ipmitool", "ipmi_ip:configure_network">>,
      box_serial |-> <<"box_serial:bmc_logs", "box_serial:dmidecode", "box_serial:fru">>,
      serial_number |-> <<"serial_number:lspci", "serial_number:fru_board",
                          "serial_number:monitor">>,
      node_type |-> <<"node_type:platform_config", "node_type:hostname",
                      "node_type:data_ip">> ]

ChainFields == DOMAIN Chains

Strategies == UNION { {Chains[f][k] : k \in 1..Len(Chains[f])} : f \in ChainFields }

\* the cached property whose body evaluates the chain of field f
OwnerOf(f) == IF f \in {"data_ip", "mgmt_ip", "ipmi_ip"} THEN "network" ELSE f

\* Node.network: how often its body evaluates each strategy
NetworkCalls(b) ==
    [s \in Strategies |->
        IF s \in {"data_ip:platform_config", "data_ip:monitor", "data_ip:configure_network",
                  "mgmt_ip:monitor", "mgmt_ip:configure_network",
                  "ipmi_ip:ipmitool", "ipmi_ip:configure_network"}
        THEN 1 ELSE 0]

\* a box_serial that evaluates its three sources before choosing among them
BoxSerialCallsEager(b) ==
    [s \in Strategies |->
        IF s \in {"box_serial:bmc_logs", "box_serial:dmidecode", "box_serial:fru"}
        THEN 1 ELSE 0]

\* Node.box_serial: how often its body evaluates each strategy
BoxSerialCalls(b) ==
    [s \in Strategies |->
        CASE s = "box_serial:bmc_logs" -> 1
          [] s = "box_serial:dmidecode" ->
                IF Accepted(GetBoxSerialFromBmcLogs(b)) THEN 0 ELSE 1
          [] s = "box_serial:fru" ->
                IF \/ Accepted(GetBoxSerialFromBmcLogs(b))
                   \/ Accepted(GetBoxSerialFromDmidecode(b.dmi))
                   \/ ~b.fru.present
                THEN 0 ELSE 1
          [] OTHER -> 0]

\* the evaluations of Node.serial_number: lspci is read for DNodes, and a second
\* time when neither it nor the board serial gave a value
SerialCalls(dnode, lspciHit, boardHit, fruPresent) ==
    [s \in Strategies |->
        CASE s = "serial_number:lspci" ->
                IF ~dnode THEN 0 ELSE IF lspciHit \/ boardHit THEN 1 ELSE 2
          [] s = "serial_number:fru_board" ->
                IF (dnode /\ lspciHit) \/ ~fruPresent THEN 0 ELSE 1
          [] s = "serial_number:monitor" ->
                IF (dnode /\ lspciHit) \/ boardHit THEN 0 ELSE 1
          [] OTHER -> 0]

\* Node.serial_number: how often its body evaluates each strategy
SerialNumberCalls(b) ==
    SerialCalls(NodeType(b) = "dnode", Truthy(GetNodeSerialFromLspci(b)),
                Truthy(GetBoardSerial(b)), b.fru.present)

\* Node.node_type: how often its body evaluates each strategy
NodeTypeCalls(b) ==
    [s \in Strategies |->
        CASE s = "node_type:platform_config" -> 1
          [] s = "node_type:hostname" -> IF TypeFromPlatformConfig(b) # "none" THEN 0 ELSE 1
          [] s = "node_type:data_ip" ->
                IF TypeFromPlatformConfig(b) # "none" \/ TypeFromHostname(b) # "none"
                THEN 0 ELSE 1
          [] OTHER -> 0]

\* the strategy evaluations of computing property p
CallsOf(p, b) ==
    CASE p = "network" -> NetworkCalls(b)
      [] p = "box_serial" -> BoxSerialCalls(b)
      [] p = "serial_number" -> SerialNumberCalls(b)
      [] p = "node_type" -> NodeTypeCalls(b)
      [] OTHER -> [s \in Strategies |-> 0]

NoCalls == [s \in Strategies |-> 0]

\* the cached property whose body evaluates strategy s
OwnerOfStrategy(s) ==
    OwnerOf(CHOOSE f \in ChainFields : \E k \in 1..Len(Chains[f]) : Chains[f][k] = s)

\* the cache with the properties of new computed
CacheWith(b, c, new) ==
    [p \in DOMAIN c \cup new |-> IF p \in DOMAIN c THEN c[p] ELSE ValueOf(p, b)]

\* the cache of the node of bundle b after reading the properties of read
CacheAfter(b, c, read) == CacheWith(b, c, Computed(b, read, DOMAIN c))

\* the call counts with the properties of new computed
CallsWith(b, n, new) ==
    [s \in Strategies |->
        IF OwnerOfStrategy(s) \in new THEN n[s] + CallsOf(OwnerOfStrategy(s), b)[s]
        ELSE n[s]]

\* the call counts of the node of bundle b after reading the properties of read
CallsAfter(b, c, n, read) == CallsWith(b, n, Computed(b, read, DOMAIN c))

-----------------------------------------------------------------------------
(* Source files that exist but cannot be used.  A fault is 'unreadable' (open *)
(* fails with an OSError), 'undecodable' (bytes that are not UTF-8),          *)
(* 'invalid' (text that is not JSON, or in which the pattern is not found)    *)
(* or 'not_object' (JSON whose top level is a non-empty list).                *)

UnicodeDecodeError == <<"UnicodeDecodeError">>

AttributeError == <<"AttributeError">>

\* _read_text_file and the open() of Node.hostname on a faulty file: OSError is
\* caught and gives None, a missing match gives None, a decoding error is a
\* ValueError and is not caught
ReadTextFault(kind) == IF kind = "undecodable" THEN UnicodeDecodeError ELSE None

\* _read_json_file on a faulty file, and Node._node_info on its result:
\* JSONDecodeError and IOError give None, a decoding error is not caught, and
\* a list has no .get
ReadJsonFault(kind) ==
    CASE kind = "undecodable" -> UnicodeDecodeError
      [] kind = "not_object" -> AttributeError
      [] OTHER -> None

\* the exception the fault of the bundle raises in the reader of its file, or None
FaultRaises(fault) ==
    IF fault.file = "monitor" THEN ReadJsonFault(fault.kind) ELSE ReadTextFault(fault.kind)

\* the files Node.box_serial opens given what its first two strategies return
BoxSerialFiles(bmc_fru_serial, serial) ==
    IF Accepted(bmc_fru_serial) THEN {"bmcFru"}
    ELSE IF Accepted(serial) THEN {"bmcFru", "dmi"}
    ELSE {"bmcFru", "dmi", "fru"}

\* the source files the property p opens when it is computed on the bundle b
FilesOpened(p, b) ==
    CASE p = "hostname" -> {"systemctl"}
      [] p = "name" -> IF Truthy(Hostname(b)) THEN {"systemctl"} ELSE {"systemctl", "monitor"}
      [] p = "position" -> {"monitor"}
      [] p = "box_serial" ->
            BoxSerialFiles(GetBoxSerialFromBmcLogs(b), GetBoxSerialFromDmidecode(b.dmi))

\* the exception reading the property p of the bundle b ends with, or None
Raises(p, b) == IF b.fault.file \in FilesOpened(p, b) THEN FaultRaises(b.fault) ELSE None

-----------------------------------------------------------------------------
(* Bounds and the input families of the specifications *)

\* number of bundle directories found by the discovery
MaxBundles == 2

\* greatest creation time written in a BUNDLE_ARGS
MaxTime == 2

\* the elements of a sequence
Range(seq) == { seq[k] : k \in 1..Len(seq) }

\* sequences over S of length 1..n
SeqsUpTo(S, n) == UNION { [1..m -> S] : m \in 1..n }

Text_d1 == <<"d", "1">>

Text_d10 == <<"d", "1", "0">>

Text_s5 == <<"s", "5">>

Text_B7 == <<"B", "7">>

\* a systemctl_status.txt whose first line names the host
HostLine(h) == <<Bullet, " ">> \o h

WithFru(b, chassis, board) ==
    IF chassis = None /\ board = None THEN b
    ELSE [b EXCEPT !.fru = [present |-> TRUE, chassis |-> chassis, board |-> board]]

\* bundles of the matching specification: hostname, node serial and box serial vary
FindBundles ==
    { WithFru([BaseBundle EXCEPT !.systemctl = sc], chassis, board) :
          sc \in {None, HostLine(Text_d1), HostLine(Text_d10)},
          board \in {None, Text_d1, Text_s5},
          chassis \in {None, Text_B7} }

\* the identifiers given on the command line
Identifiers ==
    { Text_d1, <<"D", "1">>, <<"d", "1", "$">>, <<"d", ".", "*">>, Text_s5, <<"s">>,
      Text_B7, <<"b", "7">>, <<"(">>, <<"[", "d">>, <<"d", RepeatTooLarge>>,
      <<"d", ".", "*", RepeatTooLarge>> }

TimeText(secs, wellFormed) ==
    [given |-> TRUE, secs |-> secs, micro |-> 0, wellFormed |-> wellFormed]

\* the create_time texts of the deduplication specification
DedupTimes == {NoTime, TimeText(1, FALSE)} \cup { TimeText(t, TRUE) : t \in 1..MaxTime }

\* a monitor_result.json that names the product, or names nothing
MonitorNamed(name) == [BaseBundle.monitor EXCEPT !.present = TRUE, !.name = name]

Text_h1 == <<"h", "1">>

Text_h2 == <<"h", "2">>

\* bundles of the deduplication specification
DedupBundles ==
    { [BaseBundle EXCEPT !.systemctl = sc, !.monitor = mon,
                         !.args = [create_time |-> ct, start_time |-> NoTime]] :
          sc \in {None, HostLine(Text_h1), HostLine(Text_h2)},
          mon \in {BaseBundle.monitor, MonitorNamed(None), MonitorNamed(Text_h1)},
          ct \in DedupTimes }

Ip_data10 == <<"1", "7", "2", ".", "1", "6", ".", "2", ".", "1", "0">>

Ip_data5 == <<"1", "7", "2", ".", "1", "6", ".", "2", ".", "5">>

Ip_data7 == <<"1", "7", "2", ".", "1", "6", ".", "2", ".", "7">>

Ip_data100 == <<"1", "7", "2", ".", "1", "6", ".", "2", ".", "1", "0", "0">>

Ip_dataX == <<"1", "7", "2", ".", "1", "6", ".", "2", ".", "x">>

Ip_mgmt7 == <<"1", "0", ".", "0", ".", "0", ".", "7">>

Ip_mgmt9 == <<"1", "0", ".", "0", ".", "0", ".", "9">>

Ip_ipmi9 == <<"1", "0", ".", "1", ".", "0", ".", "9">>

Text_D3 == <<"D", "3">>

Text_dnode1 == <<"d", "n", "o", "d", "e", "1">>

Text_cnode1 == <<"c", "n", "o", "d", "e", "1">>

Nic(address) == [address |-> address, mac |-> <<"m">> \o address]

\* the monitor_result.json files of the network family: none, or up to two nics
NetMonitors ==
    {BaseBundle.monitor}
    \cup { [BaseBundle.monitor EXCEPT !.present = TRUE, !.nics = nics] :
             nics \in {<<>>} \cup { <<Nic(a)>> : a \in {Ip_data10, Ip_data5, Ip_mgmt7} }
                      \cup { <<Nic(a), Nic(c)>> : a, c \in {Ip_data10, Ip_data5, Ip_mgmt7} } }

\* a configure_network parameter file with every key the fallback reads
CnFull ==
    [present |-> TRUE,
     template |-> <<"1", "7", "2", ".", "1", "6", ".", "{network}", ".", "{node}">>,
     node |-> <<"5">>, ext_ip |-> Ip_mgmt9, ipmi_ip |-> Ip_ipmi9]

\* a parameter file whose keys ext_ip and ipmi_ip have an empty value ('ipmi_ip=[]')
CnEmpty ==
    [present |-> TRUE, template |-> None, node |-> None, ext_ip |-> <<>>, ipmi_ip |-> <<>>]

PcOf(ip, type) == [present |-> TRUE, node_ip |-> ip, node_type |-> type]

\* bundles whose network sources vary
NetBundles ==
    { [BaseBundle EXCEPT !.pc = pc, !.monitor = mon, !.cn = cn, !.lanPrint = lan] :
          pc \in {BaseBundle.pc, PcOf(Ip_data7, <<>>)},
          mon \in NetMonitors,
          cn \in {BaseBundle.cn, CnFull, CnEmpty},
          lan \in {<<>>, <<ZeroIp>>, <<Ip_ipmi9>>} }

\* bundles whose box serial sources vary
BoxBundles ==
    { [BaseBundle EXCEPT !.bmcFru = bmc, !.dmi = dmi, !.fru = fru] :
          bmc \in {BaseBundle.bmcFru,
                   [present |-> TRUE, fru0 |-> Text_D3, fru1 |-> None],
                   [present |-> TRUE, fru0 |-> Text_D3, fru1 |-> Text_B7],
                   [present |-> TRUE, fru0 |-> None, fru1 |-> Uninitialized]},
          dmi \in {<<>>, <<Text_D3>>, <<Text_D3, Text_B7>>, <<Text_B7, <<>>>>,
                   <<Uninitialized>>},
          fru \in {BaseBundle.fru,
                   [present |-> TRUE, chassis |-> Text_B7, board |-> None],
                   [present |-> TRUE, chassis |-> <<"0">>, board |-> None],
                   [present |-> TRUE, chassis |-> Uninitialized, board |-> None]} }

\* bundles whose node type and node serial sources vary
TypeBundles ==
    { [BaseBundle EXCEPT !.pc = pc, !.systemctl = sc, !.lspci = lspci, !.fru = fru,
                         !.monitor = mon] :
          pc \in {BaseBundle.pc, PcOf(Ip_data5, <<>>), PcOf(Ip_data100, <<>>),
                  PcOf(Ip_dataX, <<"s", "t", "o", "r", "e">>),
                  PcOf(<<>>, <<"D", "a", "t", "a">>),
                  PcOf(Ip_data100, <<"c", "o", "n", "t", "r", "o", "l">>)},
          sc \in {None, HostLine(Text_dnode1), HostLine(Text_cnode1), HostLine(Text_h1)},
          lspci \in {None, Text_s5},
          fru \in {BaseBundle.fru, [present |-> TRUE, chassis |-> None, board |-> Text_D3]},
          mon \in {BaseBundle.monitor,
                   [BaseBundle.monitor EXCEPT !.present = TRUE, !.serial = Text_B7]} }

\* bundles in which every source is present at once
FullBundles ==
    { [BaseBundle EXCEPT !.pc = PcOf(Ip_data7, <<"D", "a", "t", "a">>),
                         !.systemctl = HostLine(Text_dnode1),
                         !.monitor = [present |-> TRUE, name |-> Text_h1, position |-> None,
                                      serial |-> Text_B7,
                                      nics |-> <<Nic(Ip_data10), Nic(Ip_mgmt7)>>],
                         !.cn = CnFull, !.lanPrint = <<Ip_ipmi9>>,
                         !.bmcFru = [present |-> TRUE, fru0 |-> Text_D3, fru1 |-> Text_B7],
                         !.dmi = <<Text_D3>>,
                         !.fru = [present |-> TRUE, chassis |-> Text_D3, board |-> Text_D3],
                         !.lspci = lspci] : lspci \in {None, Text_s5} }

NodeBundles == NetBundles \cup BoxBundles \cup TypeBundles \cup FullBundles

Text_S1 == <<"S", "1">>

Text_S2 == <<"S", "2">>

DeviceSerials == {Text_S1, Text_S2}

Text_Optane == <<"O", "p", "t", "a", "n", "e">>

Text_SN5 == <<"S", "N", "5">>

Path_nvme0 == <<"/", "d", "e", "v", "/", "n", "v", "m", "e", "0">>

Path_pmem0 == <<"/", "d", "e", "v", "/", "p", "m", "e", "m", "0">>

\* the drive records of the device family
DriveRecords ==
    [serial : DeviceSerials,
     model : {Absent, None, Text_Optane, Text_SN5},
     path : {Absent, None, Path_nvme0, Path_pmem0}]

\* bundles whose nvme_cli_list.json and nvme_list.json vary
DeviceBundles ==
    { [BaseBundle EXCEPT !.nvmeCli = cli, !.nvmeList = lst] :
          cli \in {BaseBundle.nvmeCli, [present |-> TRUE, drives |-> <<>>]}
                  \cup { [present |-> TRUE, drives |-> <<d>>] : d \in DriveRecords },
          lst \in {BaseBundle.nvmeList}
                  \cup { [present |-> TRUE, devices |-> <<d>>] : d \in DriveRecords } }

-----------------------------------------------------------------------------
(* State machine *)

NoFunction == [x \in {} |-> 0]

InitWith(bs) ==
    /\ bundles = bs
    /\ cache = [i \in 1..Len(bs) |-> NoFunction]
    /\ calls = [i \in 1..Len(bs) |-> NoCalls]
    /\ latest = [done |-> FALSE, list |-> <<>>]
    /\ findCache = NoFunction
    /\ shown = [valid |-> FALSE, node |-> 0, siblings |-> <<>>, same |-> <<>>,
                other |-> NoFunction, rows |-> <<>>]
    /\ groups = [valid |-> FALSE, list |-> <<>>]
    /\ devs = [i \in 1..Len(bs) |-> NoFunction]
    /\ raised = None
    /\ found = NoFunction

\* every node reads the properties reads[i]
ReadAll(reads) ==
    /\ cache' = [i \in 1..Len(bundles) |-> CacheAfter(bundles[i], cache[i], reads[i])]
    /\ calls' = [i \in 1..Len(bundles) |->
                    CallsAfter(bundles[i], cache[i], calls[i], reads[i])]

\* filter_latest_bundles_per_node reads hostname, and name when there is none
DiscoverReads(b) == IF Truthy(Hostname(b)) THEN {"hostname"} ELSE {"hostname", "name"}

\* ClusterDiscovery.discover: the cluster holds the latest bundle of each node
Discover ==
    /\ ~latest.done
    /\ latest' = [done |-> TRUE, list |-> FilterLatestBundlesPerNode(bundles)]
    /\ ReadAll([i \in 1..Len(bundles) |-> DiscoverReads(bundles[i])])
    /\ UNCHANGED <<bundles, findCache, shown, groups, devs, raised, found>>

\* the properties _exact_match_search reads of a node before its condition is
\* decided: the `or` stops at the first field equal to the identifier
ExactReadsOf(nameHit, serialHit, ipHit) ==
    IF nameHit THEN {"name"}
    ELSE IF serialHit THEN {"name", "serial_number"}
    ELSE IF ipHit THEN {"name", "serial_number", "network"}
    ELSE {"name", "serial_number", "network", "box_serial"}

ExactReads(b, identifier) ==
    ExactReadsOf(Name(b) = identifier, SerialNumber(b) = identifier,
                 IpEquals(Network(b), identifier))

\* the properties find_node reads of node i
FindReads(bs, cl, identifier, i) ==
    LET candidates == FastHostnameSearch(bs, cl, identifier) IN
    IF candidates # <<>>
    THEN IF \E k \in 1..Len(candidates) :
                /\ candidates[k] = i
                /\ \A j \in 1..(k - 1) : Name(bs[candidates[j]]) # identifier
         THEN {"name"} ELSE {}
    ELSE IF \E k \in 1..Len(cl) : cl[k] = i THEN ExactReads(bs[i], identifier) ELSE {}

\* main_impl: cluster.find_node(args.node_name), once per run
FindNodeCall(identifier) ==
    /\ latest.done
    /\ DOMAIN findCache = {}
    /\ ~groups.valid
    /\ raised = None
    /\ IF FindNodeRaises(bundles, latest.list, identifier)
       THEN /\ raised' = OverflowError
            /\ UNCHANGED findCache
            /\ ReadAll([i \in 1..Len(bundles) |->
                   IF HasRegexChars(identifier) THEN {}
                   ELSE FindReads(bundles, latest.list, identifier, i)])
       ELSE /\ findCache' = (identifier :> FindNode(bundles, latest.list, identifier))
            /\ ReadAll([i \in 1..Len(bundles) |->
                   FindReads(bundles, latest.list, identifier, i)])
            /\ UNCHANGED raised
    /\ UNCHANGED <<bundles, latest, shown, groups, devs, found>>

\* the view of a single match: the node, its siblings, their grouping by DTray
\* and the IP rows of the form
ShownForm(node, sib, form) ==
    [valid |-> TRUE, node |-> node, siblings |-> sib, same |-> form.same,
     other |-> form.other, rows |-> form.rows]

\* main_impl: a single match is shown with its siblings by show_node_rma_form,
\* which prints every field of the node and of its siblings
ShowSingle ==
    /\ ~shown.valid
    /\ \E identifier \in DOMAIN findCache :
          /\ Len(findCache[identifier]) = 1
          /\ LET node == findCache[identifier][1]
                 sib == Siblings(bundles, latest.list, node)
             IN /\ shown' = ShownForm(node, sib, NodeForm(bundles, node, sib))
                /\ ReadAll([i \in 1..Len(bundles) |->
                       IF i = node \/ \E k \in 1..Len(sib) : sib[k] = i THEN Props
                       ELSE IF \E k \in 1..Len(latest.list) : latest.list[k] = i
                            THEN {"box_serial"} ELSE {}])
    /\ UNCHANGED <<bundles, latest, findCache, groups, devs, raised, found>>

\* list_nodes prints every column of every listed node
ListReads(list, i) == IF \E k \in 1..Len(list) : list[k] = i THEN Props ELSE {}

\* main_impl: several matches are listed by box
ListMatches ==
    /\ ~groups.valid
    /\ \E identifier \in DOMAIN findCache :
          /\ Len(findCache[identifier]) > 1
          /\ groups' = [valid |-> TRUE, list |-> ListNodes(bundles, findCache[identifier])]
          /\ ReadAll([i \in 1..Len(bundles) |-> ListReads(findCache[identifier], i)])
    /\ UNCHANGED <<bundles, latest, findCache, shown, devs, raised, found>>

\* main_impl without a node name: list_all_nodes
ListAll ==
    /\ latest.done
    /\ DOMAIN findCache = {}
    /\ raised = None
    /\ ~groups.valid
    /\ groups' = [valid |-> TRUE, list |-> ListNodes(bundles, latest.list)]
    /\ ReadAll([i \in 1..Len(bundles) |-> ListReads(latest.list, i)])
    /\ UNCHANGED <<bundles, latest, findCache, shown, devs, raised, found>>

InitDedup == \E bs \in SeqsUpTo(DedupBundles, MaxBundles) : InitWith(bs)

NextDedup == Discover \/ ListAll

SpecDedup == InitDedup /\ [][NextDedup]_vars

\* bundles of one host whose BUNDLE_ARGS has create_time and start_time lines
\* that are missing, malformed or well formed
TimeBundles ==
    { [BaseBundle EXCEPT !.systemctl = HostLine(Text_h1),
                         !.args = [create_time |-> ct, start_time |-> st]] :
          ct \in DedupTimes, st \in DedupTimes }

InitTime == \E bs \in SeqsUpTo(TimeBundles, MaxBundles) : InitWith(bs)

NextTime == Discover \/ ListAll

SpecTime == InitTime /\ [][NextTime]_vars

InitFind == \E bs \in SeqsUpTo(FindBundles, MaxBundles) : InitWith(bs)

NextFind ==
    \/ Discover
    \/ \E identifier \in Identifiers : FindNodeCall(identifier)
    \/ ShowSingle
    \/ ListMatches
    \/ ListAll

SpecFind == InitFind /\ [][NextFind]_vars

Text_B70 == <<"B", "7", "0">>

\* bundles of two hosts in boxes whose serials are 'B7' and 'B70'
BoxFindBundles ==
    { WithFru([BaseBundle EXCEPT !.systemctl = HostLine(h)], chassis, board) :
          h \in {Text_d1, Text_d10},
          board \in {None, Text_s5},
          chassis \in {None, Text_B7, Text_B70} }

InitBox == \E bs \in SeqsUpTo(BoxFindBundles, MaxBundles) : InitWith(bs)

\* main_impl on a cluster of several boxes
SpecBox == InitBox /\ [][NextFind]_vars

\* a bundle of host h in the box of this chassis serial, with the data IP of its
\* platform.config
BoxMate(h, chassis, ip) ==
    WithFru([BaseBundle EXCEPT !.systemctl = HostLine(h),
                               !.pc = IF ip = None THEN BaseBundle.pc ELSE PcOf(ip, <<>>)],
            chassis, None)

\* clusters of three hosts, each in one of two boxes or in none
SiblingClusters ==
    { <<BoxMate(Text_d10, c1, ip1), BoxMate(Text_d1, c2, ip2), BoxMate(Text_h1, c3, ip3)>> :
          c1 \in {None, Text_B7, Text_B70}, c2 \in {None, Text_B7},
          c3 \in {None, Text_B7, Text_B70},
          ip1 \in {None, Ip_data10, Ip_data100}, ip2 \in {Ip_data7},
          ip3 \in {None, Ip_data5, Ip_data100} }

InitSiblings == \E bs \in SiblingClusters : InitWith(bs)

\* main_impl on a cluster of three hosts
SpecSiblings == InitSiblings /\ [][NextFind]_vars

Text_T1 == <<"T", "1">>

Text_T2 == <<"T", "2">>

\* the contents of ipmitool_fru_list.txt: none, a FRU device ID 0 with a chassis
\* serial, or a chassis serial under another device header
FruLists ==
    {[fru |-> BaseBundle.fru, fruId0 |-> None]}
    \cup { [fru |-> [present |-> TRUE, chassis |-> t, board |-> None], fruId0 |-> t] :
             t \in {Text_T1, Text_T2, Text_B7} }
    \cup {[fru |-> [present |-> TRUE, chassis |-> Text_T1, board |-> None], fruId0 |-> None]}

\* a bundle of host h of box 'B7' (bmc_logs, FRU 1) with the role and data IP of
\* its platform.config; its IPMI IP comes from ipmitool, from the parameter
\* file of configure_network, or from nowhere
TrayMate(h, role, ip, fruList, ipmi) ==
    [BaseBundle EXCEPT !.systemctl = HostLine(h),
                       !.pc = PcOf(ip, role),
                       !.bmcFru = [present |-> TRUE, fru0 |-> None, fru1 |-> Text_B7],
                       !.fru = fruList.fru,
                       !.fruId0 = fruList.fruId0,
                       !.lanPrint = IF ipmi = "ipmitool" THEN <<Ip_ipmi9>> ELSE <<>>,
                       !.cn = IF ipmi = "cn" THEN CnFull ELSE BaseBundle.cn]

\* clusters of three hosts of one box on one or several DTrays
TrayClusters ==
    { <<TrayMate(Text_d10, Dnode, Ip_data10, f1, i1),
        TrayMate(Text_d1, Dnode, Ip_data7, f2, i2),
        TrayMate(Text_h1, r3, Ip_data5, f3, "cn")>> :
          f1 \in { f \in FruLists : f.fruId0 # Text_T2 },
          f2 \in FruLists,
          f3 \in { f \in FruLists : f.fruId0 \in {Text_T1, Text_T2} },
          i1 \in {"ipmitool", "cn"}, i2 \in {"none", "ipmitool", "cn"},
          r3 \in {Dnode, Cnode} }

InitTray == \E bs \in TrayClusters : InitWith(bs)

\* main_impl on a cluster of one box with DTrays
SpecTray == InitTray /\ [][NextFind]_vars

\* the chained properties of a node, read directly
ChainProps == {"name", "position", "network", "node_type", "box_serial", "serial_number"}

\* first read of the cached property p of the node of bundle i
Access(i, p) ==
    /\ p \notin DOMAIN cache[i]
    /\ ReadAll([j \in 1..Len(bundles) |-> IF j = i THEN {p} ELSE {}])
    /\ UNCHANGED <<bundles, latest, findCache, shown, groups, devs, raised, found>>

InitNode == \E b \in NodeBundles : InitWith(<<b>>)

NextNode == \E i \in 1..Len(bundles), p \in ChainProps : Access(i, p)

SpecNode == InitNode /\ [][NextNode]_vars

\* a parameter file whose ext_ip and ipmi_ip hold the all-zero address
CnZero ==
    [present |-> TRUE, template |-> None, node |-> None, ext_ip |-> ZeroIp,
     ipmi_ip |-> ZeroIp]

\* bundles some of whose network sources report '0.0.0.0'
ZeroBundles ==
    { [BaseBundle EXCEPT !.pc = pc, !.monitor = mon, !.cn = cn, !.lanPrint = lan,
                         !.ipmiCmds = cmds] :
          pc \in {BaseBundle.pc, PcOf(ZeroIp, <<>>), PcOf(Ip_data7, <<>>)},
          mon \in {BaseBundle.monitor,
                   [BaseBundle.monitor EXCEPT !.present = TRUE,
                                              !.nics = <<Nic(Ip_data10), Nic(Ip_mgmt7)>>]},
          cn \in {BaseBundle.cn, CnFull, CnZero},
          lan \in {<<>>, <<ZeroIp>>, <<ZeroIp, Ip_ipmi9>>},
          cmds \in {<<>>, <<ZeroIp>>, <<ZeroIp, Ip_ipmi9>>} }

InitZero == \E b \in ZeroBundles : InitWith(<<b>>)

\* the cached properties of a node whose sources hold the all-zero address
SpecZero == InitZero /\ [][NextNode]_vars

\* first read of drive_type of the Device with this serial in bundle i
ReadDriveType(i, serial) ==
    /\ serial \notin DOMAIN devs[i]
    /\ devs' = [devs EXCEPT ![i] =
                   (serial :> [listed |-> \E k \in 1..Len(NodeDevices(bundles[i])) :
                                              NodeDevices(bundles[i])[k] = serial,
                               drive_type |-> DriveType(bundles[i], serial)]) @@ @]
    /\ UNCHANGED <<bundles, cache, calls, latest, findCache, shown, groups, raised, found>>

\* first read of location_in_box of the Device with this serial in bundle i,
\* which reads its two coordinates; raised when Device.data ends with the
\* AttributeError of a drive whose path is null
ReadLocation(i, serial) ==
    /\ serial \notin DOMAIN devs[i]
    /\ LET location == DeviceLocation(bundles[i], serial)
           fails == DeviceData(bundles[i], serial).raised
       IN devs' = [devs EXCEPT ![i] =
                      (serial :> [raised |-> fails,
                                  pci_switch_position |->
                                      IF fails THEN None ELSE location.pci_switch_position,
                                  pci_switch_slot |->
                                      IF fails THEN None ELSE location.pci_switch_slot,
                                  location_in_box |->
                                      IF fails THEN None
                                      ELSE LocationInBox(location.pci_switch_position,
                                                         location.pci_switch_slot)]) @@ @]
    /\ UNCHANGED <<bundles, cache, calls, latest, findCache, shown, groups, raised, found>>

InitDevice == \E b \in DeviceBundles : InitWith(<<b>>)

NextDevice == \E i \in 1..Len(bundles), serial \in DeviceSerials : ReadDriveType(i, serial)

SpecDevice == InitDevice /\ [][NextDevice]_vars

Path_vast_nvme0 == <<"/", "v", "a", "s", "t">> \o Path_nvme0

Path_nvme1 == <<"/", "d", "e", "v", "/", "n", "v", "m", "e", "1">>

Text_LEFT == <<"L", "E", "F", "T">>

\* the records of nvme_cli_list.json of the location family
LocatedDrives ==
    [serial : DeviceSerials, model : {Absent},
     path : {Absent, None, Path_nvme0, Path_vast_nvme0, Path_nvme1},
     pci_switch_position : {Absent, Text_LEFT},
     pci_switch_slot : {Absent, JsonInt(0), JsonInt(3), JsonInt(12)}]

\* a drive in slot 5 on the right, by serial and path
RightDrive(serial, path) ==
    [serial |-> serial, model |-> Absent, path |-> path,
     pci_switch_position |-> <<"R", "I", "G", "H", "T">>, pci_switch_slot |-> JsonInt(5)]

\* bundles whose nvme_cli_list.json has positional data and whose nvme_list.json
\* has the device S1 with or without its path
LocationBundles ==
    { [BaseBundle EXCEPT !.nvmeCli = cli, !.nvmeList = lst] :
          cli \in {BaseBundle.nvmeCli}
                  \cup { [present |-> TRUE, drives |-> <<d>>] : d \in LocatedDrives }
                  \cup { [present |-> TRUE, drives |-> <<RightDrive(Text_S2, p), d>>] :
                             p \in {Path_nvme1, Path_nvme0},
                             d \in { l \in LocatedDrives :
                                        /\ l.path \in {Path_nvme0, Path_vast_nvme0}
                                        /\ l.pci_switch_slot = JsonInt(3) } },
          lst \in {BaseBundle.nvmeList}
                  \cup { [present |-> TRUE,
                          devices |-> <<[serial |-> Text_S1, model |-> Absent, path |-> p]>>] :
                             p \in {Absent, Path_nvme0} } }

InitLocation == \E b \in LocationBundles : InitWith(<<b>>)

NextLocation ==
    \E i \in 1..Len(bundles), serial \in DeviceSerials : ReadLocation(i, serial)

\* the location of the devices of a node
SpecLocation == InitLocation /\ [][NextLocation]_vars

\* the faults a source file can have
FaultsOf(file) ==
    { [file |-> file, kind |-> k] :
          k \in IF file = "monitor"
                THEN {"unreadable", "undecodable", "invalid", "not_object"}
                ELSE {"unreadable", "undecodable", "invalid"} }

\* the bundle b in which the faulty file gives no content
WithFault(b, fault) ==
    LET f == fault.file IN
    [b EXCEPT !.fault = fault,
              !.systemctl = IF f = "systemctl" THEN BaseBundle.systemctl ELSE @,
              !.monitor = IF f = "monitor" THEN BaseBundle.monitor ELSE @,
              !.bmcFru = IF f = "bmcFru" THEN BaseBundle.bmcFru ELSE @,
              !.dmi = IF f = "dmi" THEN BaseBundle.dmi ELSE @,
              !.fru = IF f = "fru" THEN BaseBundle.fru ELSE @]

\* bundles whose hostname, node.info and box serial sources are there or not
SoundBundles ==
    { [BaseBundle EXCEPT !.systemctl = sc, !.monitor = mon, !.bmcFru = bmc, !.dmi = dmi,
                         !.fru = fru] :
          sc \in {None, HostLine(Text_h1)},
          mon \in {BaseBundle.monitor,
                   [BaseBundle.monitor EXCEPT !.present = TRUE, !.name = Text_h2,
                                              !.position = Text_d1]},
          bmc \in {BaseBundle.bmcFru, [present |-> TRUE, fru0 |-> None, fru1 |-> Text_B7]},
          dmi \in {<<>>, <<Text_D3>>},
          fru \in {BaseBundle.fru, [present |-> TRUE, chassis |-> Text_s5, board |-> None]} }

\* the same bundles, sound or with one faulty source file
FaultBundles ==
    SoundBundles
    \cup { WithFault(b, fault) :
             b \in SoundBundles,
             fault \in UNION { FaultsOf(file) :
                                 file \in {"systemctl", "monitor", "bmcFru", "dmi", "fru"} } }

\* the properties read in the presence of faults
FaultProps == {"hostname", "name", "position", "box_serial"}

\* first read of the property p of the node of bundle i: the value is cached, or
\* the exception of the reader ends the read and is what the caller sees
ReadWithFaults(i, p) ==
    /\ p \notin DOMAIN cache[i]
    /\ IF Raises(p, bundles[i]) = None
       THEN ReadAll([j \in 1..Len(bundles) |-> IF j = i THEN {p} ELSE {}])
       ELSE /\ cache' = [cache EXCEPT ![i] = (p :> Raises(p, bundles[i])) @@ @]
            /\ UNCHANGED calls
    /\ UNCHANGED <<bundles, latest, findCache, shown, groups, devs, raised, found>>

InitRead == \E b \in FaultBundles : InitWith(<<b>>)

NextRead == \E i \in 1..Len(bundles), p \in FaultProps : ReadWithFaults(i, p)

SpecRead == InitRead /\ [][NextRead]_vars

Text_S3 == <<"S", "3">>

\* a record of an inventory with nothing but its serial key
SerialRecord(serial) == [serial |-> serial, model |-> Absent, path |-> Absent]

\* the records of an inventory: a serial, an empty serial, or no serial key
InventoryRecords ==
    { SerialRecord(serial) : serial \in {Text_S1, Text_S2, Text_S3, <<>>, Absent} }

\* the entries of one inventory file: none, one or two records
InventoryLists == {<<>>} \cup SeqsUpTo(InventoryRecords, 2)

\* bundles whose two inventories hold up to two records each
InventoryBundles ==
    { [BaseBundle EXCEPT !.nvmeCli = cli, !.nvmeList = lst] :
          cli \in {BaseBundle.nvmeCli}
                  \cup { [present |-> TRUE, drives |-> l] : l \in InventoryLists },
          lst \in {BaseBundle.nvmeList}
                  \cup { [present |-> TRUE, devices |-> l] : l \in InventoryLists } }

\* bundles of the nodes of one box, each with a short inventory
BoxMateBundles ==
    { [BaseBundle EXCEPT !.nvmeCli = cli, !.nvmeList = lst] :
          cli \in {BaseBundle.nvmeCli,
                   [present |-> TRUE, drives |-> <<SerialRecord(Text_S1)>>]},
          lst \in {BaseBundle.nvmeList,
                   [present |-> TRUE, devices |-> <<SerialRecord(Text_S1)>>],
                   [present |-> TRUE, devices |-> <<SerialRecord(Text_S2)>>]} }

\* the log line of Node.devices reads the name when there are devices
DevicesReads(b) == IF NodeDevices(b) # <<>> THEN {"name"} ELSE {}

\* the cache of a node after its devices are read
CacheWithDevices(b, c) ==
    IF "devices" \in DOMAIN c THEN c
    ELSE ("devices" :> NodeDevices(b)) @@ CacheAfter(b, c, DevicesReads(b))

\* the call counts of a node after its devices are read
CallsWithDevices(b, c, n) ==
    IF "devices" \in DOMAIN c THEN n ELSE CallsAfter(b, c, n, DevicesReads(b))

\* the nodes of the bundles of scanned read their devices
ReadDevicesOf(scanned) ==
    /\ cache' = [i \in 1..Len(bundles) |->
                    IF i \in scanned THEN CacheWithDevices(bundles[i], cache[i])
                    ELSE cache[i]]
    /\ calls' = [i \in 1..Len(bundles) |->
                    IF i \in scanned THEN CallsWithDevices(bundles[i], cache[i], calls[i])
                    ELSE calls[i]]

\* first read of node.devices of bundle i
ReadDevices(i) ==
    /\ "devices" \notin DOMAIN cache[i]
    /\ ReadDevicesOf({i})
    /\ UNCHANGED <<bundles, latest, findCache, shown, groups, devs, raised, found>>

\* the bundles Cluster.find_device scans: up to the owner, or all
ScannedUpTo(owner) == IF owner = 0 THEN 1..Len(bundles) ELSE 1..owner

\* first call of cluster.find_device(serial)
FindDeviceCall(serial) ==
    /\ serial \notin DOMAIN found
    /\ found' = (serial :> ClusterFindDevice(bundles, serial)) @@ found
    /\ ReadDevicesOf(ScannedUpTo(ClusterFindDevice(bundles, serial)))
    /\ UNCHANGED <<bundles, latest, findCache, shown, groups, devs, raised>>

InitInventory ==
    \E bs \in { <<b>> : b \in InventoryBundles } \cup SeqsUpTo(BoxMateBundles, MaxBundles) :
        InitWith(bs)

NextInventory ==
    \/ \E i \in 1..Len(bundles) : ReadDevices(i)
    \/ \E serial \in {Text_S1, Text_S2} : FindDeviceCall(serial)

SpecInventory == InitInventory /\ [][NextInventory]_vars

\* a drive or nvram object of the PDB
PdbDevice(serial, native) == [serial |-> serial, native |-> native]

\* what the PDB of a bundle gives: nothing, a failure, or up to two objects
PdbSources ==
    {BaseBundle.pdb, [available |-> TRUE, failed |-> TRUE,
                      devices |-> <<PdbDevice(Text_S3, TRUE)>>]}
    \cup { [available |-> TRUE, failed |-> FALSE, devices |-> l] :
             l \in {<<>>, <<PdbDevice(Text_S1, TRUE)>>, <<PdbDevice(Text_S3, FALSE)>>,
                    <<PdbDevice(Text_S3, FALSE), PdbDevice(Text_S1, TRUE)>>,
                    <<PdbDevice(Text_S1, TRUE), PdbDevice(Text_S3, TRUE)>>} }

\* bundles with a PDB beside the two JSON inventories
PdbBundles ==
    { [BaseBundle EXCEPT !.pdb = pdb, !.nvmeCli = cli, !.nvmeList = lst] :
          pdb \in PdbSources,
          cli \in {BaseBundle.nvmeCli,
                   [present |-> TRUE, drives |-> <<SerialRecord(Text_S1)>>],
                   [present |-> TRUE, drives |-> <<SerialRecord(Text_S2)>>]},
          lst \in {BaseBundle.nvmeList,
                   [present |-> TRUE, devices |-> <<SerialRecord(Text_S2)>>],
                   [present |-> TRUE,
                    devices |-> <<SerialRecord(Text_S1), SerialRecord(Text_S2)>>]} }

InitPdb == \E b \in PdbBundles : InitWith(<<b>>)

\* the devices of a node whose bundle has a PDB
SpecPdb == InitPdb /\ [][NextInventory]_vars

-----------------------------------------------------------------------------
(* Properties: matching *)

\* the nodes of the cluster
ClusterNodes == Range(latest.list)

\* the nodes with a field equal to the identifier
ExactSet(identifier) ==
    { i \in ClusterNodes :
        \/ Name(bundles[i]) = identifier
        \/ SerialNumber(bundles[i]) = identifier
        \/ Network(bundles[i]).mgmt_ip = identifier
        \/ Network(bundles[i]).data_ip = identifier
        \/ BoxSerial(bundles[i]) = identifier }

\* the text of a field, '' when it has no value
FieldTexts(b) ==
    { Name(b), Or(SerialNumber(b), <<>>), Or(Network(b).mgmt_ip, <<>>),
      Or(Network(b).data_ip, <<>>), Or(BoxSerial(b), <<>>) }

\* the nodes with a field the pattern matches
RegexSet(identifier) ==
    { i \in ClusterNodes : \E t \in FieldTexts(bundles[i]) : Search(identifier, t) }

\* C1: when some node has a field among name, serial_number, mgmt_ip, data_ip,
\* box_serial equal to the identifier, find_node returns exactly the nodes with
\* such an exact match, and no node that matches only by substring or regex.
C1_ExactStageReturnsExactMatches ==
    \A identifier \in DOMAIN findCache :
        ExactSet(identifier) # {} =>
            Range(findCache[identifier]) = ExactSet(identifier)

\* C2: when no node has an exact field match and the identifier compiles as a
\* regular expression, find_node returns exactly the nodes one of whose five
\* fields the case-insensitive pattern matches.
C2_RegexStageReturnsRegexMatches ==
    \A identifier \in DOMAIN findCache :
        (ExactSet(identifier) = {} /\ ~CompileFails(identifier)) =>
            Range(findCache[identifier]) = RegexSet(identifier)

-----------------------------------------------------------------------------
(* Properties: deduplication *)

Inputs == 1..Len(bundles)

\* the greatest creation timestamp among the input bundles named like bundle i
GroupMax(i) ==
    CHOOSE t \in { Timestamp(bundles[j]) : j \in Inputs } :
        /\ \E j \in Inputs : Name(bundles[j]) = Name(bundles[i]) /\ Timestamp(bundles[j]) = t
        /\ \A j \in Inputs :
              Name(bundles[j]) = Name(bundles[i]) => Timestamp(bundles[j]) <= t

\* C3: for every hostname some input bundle resolves to, the output of
\* filter_latest_bundles_per_node holds exactly one bundle of that hostname, the
\* one with the greatest creation timestamp of its group; no two output bundles
\* share a hostname.
C3_DedupKeepsLatestPerHostname ==
    latest.done =>
        /\ \A i \in Inputs :
              Truthy(Name(bundles[i])) =>
                  /\ Cardinality({ k \in 1..Len(latest.list) :
                         Name(bundles[latest.list[k]]) = Name(bundles[i]) }) = 1
                  /\ \A k \in 1..Len(latest.list) :
                         Name(bundles[latest.list[k]]) = Name(bundles[i]) =>
                             Timestamp(bundles[latest.list[k]]) = GroupMax(i)
        /\ \A k, m \in 1..Len(latest.list) :
              Name(bundles[latest.list[k]]) = Name(bundles[latest.list[m]]) => k = m

\* C3 witness: two bundles of one hostname with different timestamps went through
\* the deduplication, and the later one survived
C3_Witness ==
    /\ latest.done
    /\ \E i, j \in Inputs :
          /\ Truthy(Hostname(bundles[i]))
          /\ Hostname(bundles[i]) = Hostname(bundles[j])
          /\ Timestamp(bundles[i]) < Timestamp(bundles[j])
          /\ j \in Range(latest.list)
          /\ i \notin Range(latest.list)

\* a bundle with no systemctl hostname and no product-name field
Unresolvable(b) == ~Truthy(Hostname(b)) /\ ~(b.monitor.present /\ Truthy(b.monitor.name))

\* C4: a bundle for which no hostname can be resolved does not appear in the
\* output of the deduplication, and two such bundles are not merged into one group
\* (neither is dropped in favour of the other).
C4_UnresolvableBundlesAreSkipped ==
    latest.done =>
        /\ \A k \in 1..Len(latest.list) : ~Unresolvable(bundles[latest.list[k]])
        /\ \A i, j \in Inputs :
              (i # j /\ Unresolvable(bundles[i]) /\ Unresolvable(bundles[j])) =>
                  ~(i \in Range(latest.list) /\ j \notin Range(latest.list))

-----------------------------------------------------------------------------
(* Properties: box grouping *)

\* equal and known box serials
SameKnownBox(i, j) ==
    /\ BoxSerial(bundles[i]) = BoxSerial(bundles[j])
    /\ Truthy(BoxSerial(bundles[i]))
    /\ BoxSerial(bundles[i]) # UNKNOWN_VALUE

\* the nodes listed in the last listing
Listed == UNION { Range(groups.list[g]) : g \in 1..Len(groups.list) }

\* C6: two distinct nodes are co-located (same group of list_nodes, siblings via
\* nodes_by_box) if and only if their box serials are equal and known; a node
\* without a known box serial is grouped with no other node.
C6_CoLocatedIffSameKnownBox ==
    /\ groups.valid =>
          \A i, j \in Listed :
              i # j =>
                  ((\E g \in 1..Len(groups.list) :
                        i \in Range(groups.list[g]) /\ j \in Range(groups.list[g]))
                   <=> SameKnownBox(i, j))
    /\ shown.valid =>
          \A j \in ClusterNodes :
              j # shown.node =>
                  (j \in Range(shown.siblings) <=> SameKnownBox(shown.node, j))

-----------------------------------------------------------------------------
(* Properties: fallback chains of a node *)

\* the nodes whose cached property p has been computed
Has(i, p) == p \in DOMAIN cache[i]

\* C5: when monitor_result.json is the source of the data IP and reports several
\* addresses with the prefix 172.16., the data IP is the numerically lowest of
\* them, octets compared as integers.
C5_MonitorDataIpIsNumericallyLowest ==
    \A i \in Inputs :
        LET b == bundles[i]
            candidates == IF b.monitor.present THEN DataIpCandidates(b.monitor.nics)
                          ELSE <<>>
        IN (Has(i, "network") /\ ~Truthy(DataIpFromPlatformConfig(b))
                /\ candidates # <<>>) =>
               \A k \in 1..Len(candidates) :
                   ~KeyLess(ip_to_sort_key(candidates[k]),
                            ip_to_sort_key(cache[i].network.data_ip))

\* strategy k of the chain of field f returns a non-empty, non-sentinel value
Succeeds(f, k, b) ==
    CASE f = "data_ip" ->
            Truthy(<<DataIpFromPlatformConfig(b), IpsFromMonitorData(b).data_ip,
                     IpsFromConfigureNetwork(b).data_ip>>[k])
      [] f = "mgmt_ip" ->
            Truthy(<<IpsFromMonitorData(b).mgmt_ip, IpsFromConfigureNetwork(b).mgmt_ip>>[k])
      [] f = "ipmi_ip" ->
            Truthy(<<GetIpmiIp(b), IpsFromConfigureNetwork(b).ipmi_ip>>[k])
      [] f = "box_serial" ->
            Accepted(<<GetBoxSerialFromBmcLogs(b), GetBoxSerialFromDmidecode(b.dmi),
                       BoxSerialFromFru(b)>>[k])
      [] f = "serial_number" ->
            <<NodeType(b) = "dnode" /\ Truthy(GetNodeSerialFromLspci(b)),
              Truthy(GetBoardSerial(b)), TRUE>>[k]
      [] f = "node_type" ->
            <<TypeFromPlatformConfig(b), TypeFromHostname(b), TypeFromDataIp(b)>>[k] # "none"

\* the first strategy of the chain of f that succeeds, or 0
FirstSuccess(f, b) ==
    IF \E k \in 1..Len(Chains[f]) : Succeeds(f, k, b)
    THEN CHOOSE k \in 1..Len(Chains[f]) :
            Succeeds(f, k, b) /\ \A j \in 1..(k - 1) : ~Succeeds(f, j, b)
    ELSE 0

\* no strategy of field f below the first successful one was invoked on node i
NoLowerInvoked(i, f) ==
    (Has(i, OwnerOf(f)) /\ FirstSuccess(f, bundles[i]) # 0) =>
        \A j \in (FirstSuccess(f, bundles[i]) + 1)..Len(Chains[f]) :
            calls[i][Chains[f][j]] = 0

IpStrategyValue(f, k, b) ==
    CASE f = "data_ip" ->
            <<DataIpFromPlatformConfig(b), IpsFromMonitorData(b).data_ip,
              IpsFromConfigureNetwork(b).data_ip>>[k]
      [] f = "mgmt_ip" ->
            <<IpsFromMonitorData(b).mgmt_ip, IpsFromConfigureNetwork(b).mgmt_ip>>[k]
      [] f = "ipmi_ip" ->
            <<GetIpmiIp(b), IpsFromConfigureNetwork(b).ipmi_ip>>[k]

C8_BoxSerialNeverUninitialized ==
    \A i \in Inputs : Has(i, "box_serial") => cache[i].box_serial # Uninitialized

-----------------------------------------------------------------------------
(* Properties: drive type *)

\* the record Device.data finds for the serial, or none
RecordOf(i, serial) == DeviceData(bundles[i], serial)

\* a field of a source record that is a text
IsText(v) == v # Absent /\ v # None

\* the text of a field lower-cased, '' when the record has no such text
LowerText(v) == IF IsText(v) THEN Lower(v) ELSE <<>>

\* C9: a device whose record lacks the model or the device path, or that has no
\* record at all, and that shows no indicator in what is there, has drive_type
\* 'ssd'; reading drive_type does not raise.
C9_DriveTypeDefaultsToSsd ==
    \A i \in Inputs : \A serial \in DOMAIN devs[i] :
        LET r == RecordOf(i, serial) IN
        (\/ ~r.found
         \/ /\ r.model = Absent \/ r.path = Absent
            /\ ~HasIndicator(LowerText(r.model), LowerText(r.path))) =>
            devs[i][serial].drive_type = "ssd"

\* C10: a device is classified 'nvram' exactly when its model or its device path
\* contains, case-insensitively, one of the indicators, and 'ssd' otherwise.
C10_NvramIffIndicator ==
    \A i \in Inputs : \A serial \in DOMAIN devs[i] :
        LET r == RecordOf(i, serial) IN
        devs[i][serial].drive_type =
            IF HasIndicator(LowerText(r.model), LowerText(r.path)) THEN "nvram" ELSE "ssd"

-----------------------------------------------------------------------------
(* Properties: the node_type chain *)

\* some word of the set occurs in the text
ContainsAny(text, words) == \E w \in words : Contains(text, w)

\* the node type the three sources name, taken in the order config, hostname, ip
TypeByPriority(role, host, data_ip) ==
    IF ContainsAny(role, {Dnode, <<"d", "a", "t", "a">>}) THEN "dnode"
    ELSE IF ContainsAny(role, {Cnode, <<"c", "o", "n", "t", "r", "o", "l">>,
                               <<"c", "o", "m", "p", "u", "t", "e">>}) THEN "cnode"
    ELSE IF Contains(host, Dnode) THEN "dnode"
    ELSE IF Contains(host, Cnode) THEN "cnode"
    ELSE IF Truthy(data_ip) /\ IsInt(Last(SplitDot(data_ip, <<>>)))
         THEN (IF ToInt(Last(SplitDot(data_ip, <<>>))) >= 100 THEN "dnode" ELSE "cnode")
    ELSE "unknown"

\* the lower-cased role of platform.config, empty when there is none
RoleOf(b) == IF b.pc.present /\ Truthy(b.pc.node_type) THEN Lower(b.pc.node_type) ELSE <<>>

\* the lower-cased hostname, empty when there is none
HostOf(b) == IF Truthy(Hostname(b)) THEN Lower(Hostname(b)) ELSE <<>>

-----------------------------------------------------------------------------
(* Properties: provenance of the IP fields *)

\* the marker of a field is right: set exactly when no higher source gave a value
\* and the stored value is the one of configure_network, and clear without a value
MarkerRight(value, marker, higher, cn_value) ==
    /\ marker <=> (~higher /\ Truthy(cn_value) /\ value = cn_value)
    /\ ~Truthy(value) => ~marker

\* the markers of the three fields of a NetworkInfo are right
MarkersRight(network, pcIp, monitor_ips, ipmi, cn_ips) ==
    /\ MarkerRight(network.data_ip, network.data_ip_from_cn,
                   Truthy(pcIp) \/ Truthy(monitor_ips.data_ip), cn_ips.data_ip)
    /\ MarkerRight(network.mgmt_ip, network.mgmt_ip_from_cn,
                   Truthy(monitor_ips.mgmt_ip), cn_ips.mgmt_ip)
    /\ MarkerRight(network.ipmi_ip, network.ipmi_ip_from_cn, Truthy(ipmi), cn_ips.ipmi_ip)

\* C12: for each of data_ip, mgmt_ip and ipmi_ip the '_from_cn' marker is true if
\* and only if every higher-priority source gave no value and the stored value
\* was taken from the configure_network parameters; a value of platform.config,
\* monitor_result.json or ipmitool has its marker false, and so has a field
\* with no value.
C12_FromCnMarkerIffValueFromCn ==
    \A i \in Inputs :
        Has(i, "network") =>
            MarkersRight(cache[i].network, DataIpFromPlatformConfig(bundles[i]),
                         IpsFromMonitorData(bundles[i]), GetIpmiIp(bundles[i]),
                         IpsFromConfigureNetwork(bundles[i]))

-----------------------------------------------------------------------------
(* Properties: the serial_number chain *)

\* the serial of monitor_result.json, or the unknown value without the file
MonitorSerial(node_info) ==
    IF node_info.present THEN node_info.serial_number ELSE UNKNOWN_VALUE

\* the serial the chain of a node of this type gives, and the use it makes of lspci
SerialChainRight(value, lspci_calls, node_type, lspci, board_serial, node_info) ==
    IF node_type = "dnode"
    THEN value = (IF Truthy(lspci) THEN lspci
                  ELSE IF Truthy(board_serial) THEN board_serial
                  ELSE MonitorSerial(node_info))
    ELSE /\ lspci_calls = 0
         /\ value = (IF Truthy(board_serial) THEN board_serial
                     ELSE MonitorSerial(node_info))
         /\ Truthy(lspci) => value # lspci

\* C13: the serial of a dnode is the lspci VPD serial when one is found, else the
\* FRU board serial, else the monitor_result.json serial; for a node that is not
\* a dnode the lspci VPD serial is never consulted and never returned.
C13_LspciSerialOnlyForDnode ==
    \A i \in Inputs :
        Has(i, "serial_number") =>
            SerialChainRight(cache[i].serial_number, calls[i]["serial_number:lspci"],
                             NodeType(bundles[i]), GetNodeSerialFromLspci(bundles[i]),
                             GetBoardSerial(bundles[i]), NodeInfo(bundles[i]))

\* C13 witness: a cnode whose lspci dump has a VPD serial takes the board serial
C13_Witness ==
    \E i \in Inputs :
        /\ Has(i, "serial_number")
        /\ NodeType(bundles[i]) = "cnode"
        /\ Truthy(GetNodeSerialFromLspci(bundles[i]))
        /\ Truthy(GetBoardSerial(bundles[i]))
        /\ cache[i].serial_number = GetBoardSerial(bundles[i])
        /\ calls[i]["serial_number:lspci"] = 0

-----------------------------------------------------------------------------
(* Properties: the explicit unknown value *)

\* monitor_result.json gives no value for a field of node.info
NoMonitorValue(monitor, field) == ~monitor.present \/ ~Truthy(monitor[field])

\* every strategy of the property p fails on the bundle b
AllStrategiesFail(p, b) ==
    CASE p = "name" -> ~Truthy(Hostname(b)) /\ NoMonitorValue(b.monitor, "name")
      [] p = "position" -> NoMonitorValue(b.monitor, "position")
      [] p = "serial_number" -> FirstSuccess("serial_number", b) = 3
                                    /\ NoMonitorValue(b.monitor, "serial")
      [] p = "box_serial" -> FirstSuccess("box_serial", b) = 0
      [] p = "node_type" -> FirstSuccess("node_type", b) = 0

\* the explicit unknown value of the property p
UnknownOf(p) == IF p = "node_type" THEN "unknown" ELSE UNKNOWN_VALUE

\* C14: when all its strategies fail, each of name, serial_number, position and
\* box_serial resolves to 'Unknown' and node_type to 'unknown', never to an empty
\* string or an absent value, also when monitor_result.json exists but lacks
\* the field.
C14_AllStrategiesFailGivesUnknown ==
    \A i \in Inputs :
        \A p \in {"name", "serial_number", "position", "box_serial", "node_type"} :
            (Has(i, p) /\ AllStrategiesFail(p, bundles[i])) => cache[i][p] = UnknownOf(p)

-----------------------------------------------------------------------------
(* Properties: faulty source files *)

\* the bundle with its faulty file taken away
WithoutFaultyFile(b) == [b EXCEPT !.fault = NoFault]

\* C15: if a source file is unreadable or present but unparsable (invalid JSON,
\* undecodable text, pattern not found, malformed value), resolution of a field
\* completes without raising and yields the same result as if that source
\* were absent.
C15_FaultySourceIsAbsentSource ==
    \A i \in Inputs :
        \A p \in DOMAIN cache[i] :
            cache[i][p] = ValueOf(p, WithoutFaultyFile(bundles[i]))

-----------------------------------------------------------------------------
(* Properties: matching never raises *)

\* C16: for every identifier, an invalid regular expression and the empty
\* string included, find_node returns a list and never raises; an identifier
\* that is not a valid pattern and matches nothing exactly yields the empty
\* result.
C16_FindNodeNeverRaises ==
    /\ raised = None
    /\ \A identifier \in DOMAIN findCache :
          (CompileFails(identifier) /\ ExactSet(identifier) = {}
               /\ FastHostnameSearch(bundles, latest.list, identifier) = <<>>) =>
              findCache[identifier] = <<>>

-----------------------------------------------------------------------------
(* Properties: memoization *)

\* a step keeps the cached value of property p of node i and runs none of the
\* extractors of p
Kept(i, p) ==
    /\ p \in DOMAIN cache'[i]
    /\ cache'[i][p] = cache[i][p]
    /\ \A s \in Strategies : OwnerOfStrategy(s) = p => calls'[i][s] = calls[i][s]

-----------------------------------------------------------------------------
(* Properties: devices *)

\* the serials of the device list read for node i
DeviceSet(i) == Range(cache[i].devices)

\* C18: no device serial appears in the device lists of two distinct nodes of a
\* cluster, so the node Cluster.find_device returns is the only owner of the
\* serial.
C18_DeviceSerialHasOneOwner ==
    /\ \A i, j \in Inputs :
          (i # j /\ Has(i, "devices") /\ Has(j, "devices")) =>
              DeviceSet(i) \cap DeviceSet(j) = {}
    /\ \A serial \in DOMAIN found : \A j \in Inputs :
          (Has(j, "devices") /\ serial \in DeviceSet(j)) => found[serial] = j

\* the non-empty serials of the records of an inventory
SerialsOf(records) ==
    { Get(records[k].serial) : k \in { n \in 1..Len(records) : Truthy(Get(records[n].serial)) } }

\* the non-empty serials of the two JSON inventories of a bundle
InventorySerials(b) ==
    (IF b.nvmeCli.present THEN SerialsOf(b.nvmeCli.drives) ELSE {})
    \cup (IF b.nvmeList.present THEN SerialsOf(b.nvmeList.devices) ELSE {})

\* no element occurs twice in the sequence
NoDuplicate(seq) == \A k, n \in 1..Len(seq) : seq[k] = seq[n] => k = n

-----------------------------------------------------------------------------
(* Properties: the creation timestamp *)

\* a time text that is there and has the form strptime accepts
Parsable(t) == t.given /\ t.wellFormed

\* the timestamp by the chain create_time, start_time, directory modification
\* time, minimum sentinel (a directory always has a modification time)
TimestampByChain(b) ==
    IF Parsable(b.args.create_time) THEN DatetimeMin + b.args.create_time.secs
    ELSE IF Parsable(b.args.start_time) THEN DatetimeMin + b.args.start_time.secs
    ELSE b.mtime

\* C20: the timestamp the deduplication compares is the BUNDLE_ARGS create_time
\* when present and parsable, else the start_time, else the modification time
\* of the bundle directory, and the minimum sentinel only when none of the
\* three is available.
C20_TimestampFallbackChain ==
    latest.done =>
        \A i \in Inputs : Timestamp(bundles[i]) = TimestampByChain(bundles[i])


-----------------------------------------------------------------------------
(* Properties: the box-serial stage of find_node *)

\* the identifier equals one of the node's own four fields, or its pattern
\* matches one of them
NodeFieldMatch(b, network, identifier) ==
    LET texts == { Name(b), Or(SerialNumber(b), <<>>), Or(network.mgmt_ip, <<>>),
                   Or(network.data_ip, <<>>) }
    IN \E t \in texts :
          t = identifier \/ (~CompileFails(identifier) /\ Search(identifier, t))

\* the nodes of every box whose serial the identifier's pattern matches
BoxMatchSet(identifier) ==
    { i \in ClusterNodes :
        /\ ~CompileFails(identifier)
        /\ Search(identifier, Or(BoxSerial(bundles[i]), <<>>)) }

\* C21: when the identifier matches no node by name, serial_number, mgmt_ip or
\* data_ip, neither exactly nor by regex, find_node returns the nodes of every
\* box whose serial its pattern matches, and nothing only when no box serial
\* matches.
C21_BoxSerialStageReturnsEveryMatchingBox ==
    \A identifier \in DOMAIN findCache :
        (\A i \in ClusterNodes :
            ~NodeFieldMatch(bundles[i], Network(bundles[i]), identifier)) =>
            Range(findCache[identifier]) = BoxMatchSet(identifier)

-----------------------------------------------------------------------------
(* Properties: the all-zero address *)

\* C22: whatever the sources hold, none of the resolved ipmi_ip, data_ip and
\* mgmt_ip is '0.0.0.0': a source that reports it counts as missing.
C22_ResolvedIpNeverAllZero ==
    \A i \in Inputs :
        Has(i, "network") =>
            /\ cache[i].network.ipmi_ip # ZeroIp
            /\ cache[i].network.data_ip # ZeroIp
            /\ cache[i].network.mgmt_ip # ZeroIp

-----------------------------------------------------------------------------
(* Properties: the siblings of a single match *)

\* C23: the siblings of the matched node are exactly the other nodes of the
\* cluster whose box_serial equals its box_serial, none of them twice, in
\* ascending order of the last octet of their data IP.
C23_SiblingsAreTheOtherNodesOfTheBox ==
    shown.valid =>
        /\ Range(shown.siblings) =
               { j \in ClusterNodes \ {shown.node} :
                   BoxSerial(bundles[j]) = BoxSerial(bundles[shown.node]) }
        /\ NoDuplicate(shown.siblings)
        /\ \A k \in 1..(Len(shown.siblings) - 1) :
               get_ip_last_octet(Network(bundles[shown.siblings[k]]).data_ip)
                   <= get_ip_last_octet(Network(bundles[shown.siblings[k + 1]]).data_ip)

\* C23 witness: a node is shown with two siblings that the cluster holds in the
\* opposite order of their last octets, while a third box holds another node
C23_Witness ==
    /\ shown.valid
    /\ Len(shown.siblings) = 2
    /\ shown.siblings[1] > shown.siblings[2]
    /\ get_ip_last_octet(Network(bundles[shown.siblings[1]]).data_ip)
           < get_ip_last_octet(Network(bundles[shown.siblings[2]]).data_ip)

-----------------------------------------------------------------------------
(* Properties: priority order of box_serial *)

\* a chassis serial of a FRU record that can be used
UsableFru(serial) ==
    Truthy(serial) /\ serial \notin INVALID_SERIALS /\ serial # Uninitialized

\* the serial of the last 'Chassis Information' section that has one
LastChassisSerial(dmi) ==
    IF \E k \in 1..Len(dmi) : Truthy(dmi[k])
    THEN dmi[CHOOSE k \in 1..Len(dmi) :
                 Truthy(dmi[k]) /\ \A j \in (k + 1)..Len(dmi) : ~Truthy(dmi[j])]
    ELSE None

\* the chassis serial of ipmitool_fru_list.txt
FruListSerial(b) ==
    IF b.fru.present /\ Truthy(b.fru.chassis) /\ b.fru.chassis \notin INVALID_SERIALS
    THEN b.fru.chassis ELSE None

\* dmidecode, then the ipmitool FRU list
AfterBmcLog(b) ==
    IF Truthy(LastChassisSerial(b.dmi)) /\ LastChassisSerial(b.dmi) # Uninitialized
    THEN LastChassisSerial(b.dmi)
    ELSE FruListSerial(b)

\* FRU 1 of the BMC log, then dmidecode, then the ipmitool FRU list
BoxSerialByPriority(b) ==
    IF b.bmcFru.present /\ UsableFru(b.bmcFru.fru1) THEN b.bmcFru.fru1
    ELSE AfterBmcLog(b)

BoxSerialByPriorityWithFru0(b) ==
    LET fru1 == b.bmcFru.present /\ Truthy(b.bmcFru.fru1)
                    /\ b.bmcFru.fru1 \notin INVALID_SERIALS
        fru0 == b.bmcFru.present /\ ~fru1 /\ Truthy(b.bmcFru.fru0)
                    /\ b.bmcFru.fru0 \notin INVALID_SERIALS
    IN IF fru1 /\ b.bmcFru.fru1 # Uninitialized THEN b.bmcFru.fru1
       ELSE IF fru0 /\ b.bmcFru.fru0 # Uninitialized THEN b.bmcFru.fru0
       ELSE AfterBmcLog(b)

-----------------------------------------------------------------------------
(* Properties: the PDB as the source of the devices *)

\* the serials of the PDB objects native to the node, when the PDB can be used
NativeSerials(b) ==
    IF b.pdb.available /\ ~b.pdb.failed
    THEN { b.pdb.devices[k].serial :
             k \in { n \in 1..Len(b.pdb.devices) : b.pdb.devices[n].native } }
    ELSE {}

\* C25: when the PDB yields at least one device native to the node, Node.devices
\* holds exactly those devices and none that is only in nvme_cli_list.json or
\* nvme_list.json; otherwise it holds devices of the JSON inventories only.
C25_PdbDevicesWinWholesale ==
    \A i \in Inputs :
        Has(i, "devices") =>
            IF NativeSerials(bundles[i]) # {}
            THEN DeviceSet(i) = NativeSerials(bundles[i])
            ELSE DeviceSet(i) = InventorySerials(bundles[i])

\* C25 witness: the devices were read of a node whose PDB has a native device
\* while a JSON inventory lists a serial the PDB does not have, which is not
\* among the devices
C25_Witness ==
    \E i \in Inputs :
        /\ Has(i, "devices")
        /\ NativeSerials(bundles[i]) # {}
        /\ InventorySerials(bundles[i]) \ NativeSerials(bundles[i]) # {}
        /\ DeviceSet(i) = NativeSerials(bundles[i])

-----------------------------------------------------------------------------
(* Properties: the position of a device *)

\* the name of a device path after its last '/'
RECURSIVE Basename(_)
Basename(path) ==
    IF path = <<>> \/ path[Len(path)] = "/" THEN <<>>
    ELSE Append(Basename(SubSeq(path, 1, Len(path) - 1)), path[Len(path)])

\* two paths are texts that name the same device
SameDevicePath(drive_path, device_path) ==
    /\ IsText(drive_path) /\ IsText(device_path)
    /\ Basename(drive_path) # <<>>
    /\ Basename(drive_path) = Basename(device_path)

\* the least element of a set of indexes
Least(S) == CHOOSE k \in S : \A j \in S : k <= j

\* the positional data read for the device is the one of this record
HasPositionOf(dev, drive) ==
    /\ ~dev.raised
    /\ dev.pci_switch_position = Get(Field(drive, "pci_switch_position"))
    /\ dev.pci_switch_slot = Get(Field(drive, "pci_switch_slot"))

\* the device has no positional data
HasNoPosition(dev) ==
    ~dev.raised /\ dev.pci_switch_position = None /\ dev.pci_switch_slot = None

\* the positional data of a device is right for these drives of
\* nvme_cli_list.json and this record list of nvme_list.json
EnrichedRight(dev, serial, drives, devices) ==
    LET own == { k \in 1..Len(drives) : Get(drives[k].serial) = serial }
        listed == { k \in 1..Len(devices) : Get(devices[k].serial) = serial }
        same == { k \in 1..Len(drives) :
                    listed # {} /\ SameDevicePath(Field(drives[k], "path"),
                                                  devices[Least(listed)].path) }
    IN /\ own # {} => HasPositionOf(dev, drives[Least(own)])
       /\ (own = {} /\ listed # {}) =>
              IF same # {} THEN HasPositionOf(dev, drives[Least(same)])
              ELSE HasNoPosition(dev)

\* C26: a device whose serial is only in nvme_list.json has the
\* pci_switch_position and pci_switch_slot of the nvme_cli_list.json entry whose
\* path names the same device, and none when no entry has that path; a device
\* found by serial in nvme_cli_list.json has that record's own positional data.
C26_PositionalEnrichmentByPath ==
    \A i \in Inputs : \A serial \in DOMAIN devs[i] :
        EnrichedRight(devs[i][serial], serial,
                      IF bundles[i].nvmeCli.present THEN bundles[i].nvmeCli.drives ELSE <<>>,
                      IF bundles[i].nvmeList.present THEN bundles[i].nvmeList.devices
                      ELSE <<>>)

\* C30: a device whose record has both a pci_switch_position and a
\* pci_switch_slot, whatever the slot number, has the location
\* '<position>-<slot>'; the location is 'Unknown' only when one of them is
\* absent.
C30_LocationIsPositionAndSlot ==
    \A i \in Inputs : \A serial \in DOMAIN devs[i] :
        LET dev == devs[i][serial] IN
        ~dev.raised =>
            dev.location_in_box =
                IF dev.pci_switch_position # None /\ dev.pci_switch_slot # None
                THEN dev.pci_switch_position \o <<"-">> \o IntText(dev.pci_switch_slot[2])
                ELSE UNKNOWN_VALUE

-----------------------------------------------------------------------------
(* Properties: siblings by DTray *)

\* the DTray serial of node i, None without DTray info
DtraySerialOfNode(i) == DtraySerial(DtrayInfo(bundles[i]))

\* the siblings filed under some other DTray
InOther == UNION { Range(shown.other[key]) : key \in DOMAIN shown.other }

\* every sibling is in exactly one group, once
GroupsPartition ==
    /\ Range(shown.same) \cup InOther = Range(shown.siblings)
    /\ Range(shown.same) \cap InOther = {}
    /\ NoDuplicate(shown.same)
    /\ \A key \in DOMAIN shown.other :
          /\ shown.other[key] # <<>>
          /\ NoDuplicate(shown.other[key])
          /\ \A other \in DOMAIN shown.other :
                other # key => Range(shown.other[key]) \cap Range(shown.other[other]) = {}

\* C27: the siblings of the matched node are partitioned by DTray: each is in
\* exactly one group, none lost or duplicated; a sibling is in an 'other DTray'
\* group, under its own DTray serial, exactly when its DTray identity (its
\* DTray serial, or none) differs from the matched node's, else in the same
\* group.
C27_SiblingsPartitionedByDtrayIdentity ==
    shown.valid =>
        /\ GroupsPartition
        /\ \A s \in Range(shown.siblings) :
              IF DtraySerialOfNode(s) # DtraySerialOfNode(shown.node)
              THEN /\ DtraySerialOfNode(s) \in DOMAIN shown.other
                   /\ s \in Range(shown.other[DtraySerialOfNode(s)])
              ELSE s \in Range(shown.same)

\* C27 amended: each sibling is in exactly one group, none lost or duplicated;
\* a sibling is in an 'other DTray' group, under its own DTray serial, exactly
\* when it has a DTray serial and that differs from the matched node's; a
\* sibling without DTray info is in the same group.
C27_SiblingsPartitionedByDtraySerial ==
    shown.valid =>
        /\ GroupsPartition
        /\ \A s \in Range(shown.siblings) :
              IF /\ DtraySerialOfNode(s) # None
                 /\ DtraySerialOfNode(s) # DtraySerialOfNode(shown.node)
              THEN /\ DtraySerialOfNode(s) \in DOMAIN shown.other
                   /\ s \in Range(shown.other[DtraySerialOfNode(s)])
              ELSE s \in Range(shown.same)

\* C27 witness: a node on a DTray is shown with one sibling on another DTray
\* and one sibling without DTray info
C27_Witness ==
    /\ shown.valid
    /\ DtraySerialOfNode(shown.node) # None
    /\ Len(shown.siblings) = 2
    /\ Len(shown.same) = 1
    /\ DtraySerialOfNode(shown.same[1]) = None
    /\ DOMAIN shown.other # {}

-----------------------------------------------------------------------------
(* Properties: provenance in the form *)

\* the provenance bit of the value a row shows
RowFromCn(row) ==
    LET network == Network(bundles[row.node])
    IN CASE row.label = "IP" -> network.data_ip_from_cn
         [] row.label = "MGMT IP" -> network.mgmt_ip_from_cn
         [] row.label = "IPMI IP" -> network.ipmi_ip_from_cn

\* the text ends with the marker
Marked(text) ==
    /\ Len(text) >= Len(CnMarker)
    /\ SubSeq(text, Len(text) - Len(CnMarker) + 1, Len(text)) = CnMarker

\* C28: every IP value shown in the form (data IP, MGMT IP, IPMI IP, in a node
\* section or in a DTray section) carries the '(!cn)' marker exactly when its
\* value came from the configure_network fallback.
C28_CnMarkerReachesTheForm ==
    shown.valid =>
        \A k \in 1..Len(shown.rows) :
            shown.rows[k].text # <<>> => (Marked(shown.rows[k].text) <=> RowFromCn(shown.rows[k]))

-----------------------------------------------------------------------------
(* Properties: ties of the deduplication *)

\* bundle j is one of the latest of its hostname: no input bundle of the same
\* hostname has a greater creation timestamp
AmongLatest(j) ==
    \A i \in Inputs :
        GroupKey(bundles[i]) = GroupKey(bundles[j]) =>
            Timestamp(bundles[i]) <= Timestamp(bundles[j])

\* C29: when several bundles of one hostname share the greatest creation
\* timestamp (the minimum sentinel of bundles without a usable creation time
\* included), filter_latest_bundles_per_node keeps the one that comes first in
\* the input list: no bundle of the hostname with that timestamp stands before
\* the survivor, and no later one survives.
C29_DedupTieKeepsFirstInInputOrder ==
    latest.done =>
        \A i, j \in Inputs :
            ( /\ i < j
              /\ Truthy(GroupKey(bundles[i]))
              /\ GroupKey(bundles[i]) = GroupKey(bundles[j])
              /\ Timestamp(bundles[i]) = Timestamp(bundles[j])
              /\ AmongLatest(j) )
            => /\ j \notin Range(latest.list)
               /\ \E k \in 1..i : /\ k \in Range(latest.list)
                                  /\ GroupKey(bundles[k]) = GroupKey(bundles[i])
                                  /\ Timestamp(bundles[k]) = Timestamp(bundles[i])
                                  /\ \A m \in 1..(k - 1) :
                                        GroupKey(bundles[m]) = GroupKey(bundles[k])
                                            => Timestamp(bundles[m]) < Timestamp(bundles[k])

\* C29 witness: two bundles of one hostname without a usable creation time, both
\* at the minimum sentinel, went through the deduplication and the first one
\* survived
C29_Witness ==
    /\ latest.done
    /\ \E i, j \in Inputs :
          /\ i < j
          /\ Truthy(GroupKey(bundles[i]))
          /\ GroupKey(bundles[i]) = GroupKey(bundles[j])
          /\ CreateDatetime(bundles[i]) = DatetimeMin - 1
          /\ CreateDatetime(bundles[j]) = DatetimeMin - 1
          /\ i \in Range(latest.list)
          /\ j \notin Range(latest.list)
====
